---- MODULE Spec2Model ----
(***************************************************************************)
(* A model of the mustache template compiler and renderer.                 *)
(*                                                                         *)
(* Text is a sequence of one-character strings.  Positions keep Go's       *)
(* 0-based convention: At(s, i) is s[i] and Slice(s, a, b) is s[a:b].       *)
(* The parser is a state machine with one action per kind of loop          *)
(* iteration of Template.parse / Template.parseSection; the recursion of   *)
(* parseSection is the variable stack.  Rendering is one action that       *)
(* applies the recursive renderer to the compiled tree.                    *)
(***************************************************************************)
EXTENDS Integers, Sequences, FiniteSets, TLC

VARIABLES
    data,       \* Template.data: the template text
    otag,       \* Template.otag
    ctag,       \* Template.ctag
    p,          \* Template.p: the cursor
    curline,    \* Template.curline
    elems,      \* Template.elems: the top-level element list
    forceRaw,   \* Template.forceRaw
    stack,      \* the sectionElement of every parseSection call in progress, innermost last
    pc,         \* "parsing", "parsed", "error", "panic", "rendered"
    ret,        \* what ParseString returned: [tmpl |-> BOOLEAN, err |-> ParseError]
    last,       \* the tag read by the latest loop iteration and what the iteration did
    openAt,     \* for every entry of stack: the position of its open tag's delimiter
    closes,     \* for every section completed so far: its name and the name in its close tag
    context,    \* the context list given to Render
    allowMissing, \* the global AllowMissingVariables during the render
    out,        \* what the render wrote
    rerr,       \* the error the render returned
    escape,     \* Template.escape: the escape function in force
    layout,     \* the text of the layout template of the last RenderInLayout
    renders     \* the renders in progress of the template, one per goroutine

vars == <<data, otag, ctag, p, curline, elems, forceRaw, stack, pc, ret, last,
          openAt, closes, context, allowMissing, out, rerr, escape, layout, renders>>

parseVars == <<data, otag, ctag, p, curline, elems, forceRaw, stack, ret, last, openAt,
              closes>>
renderVars == <<context, allowMissing, out, rerr, escape, layout, renders>>

-----------------------------------------------------------------------------
(* Strings *)

At(s, i) == s[i + 1]

Slice(s, a, b) == SubSeq(s, a + 1, b)

Min(S) == CHOOSE x \in S : \A y \in S : x <= y

\* unicode.IsSpace restricted to the characters of the model
IsSpace(c) == c \in {" ", "\t", "\n", "\r"}

RECURSIVE TrimLeft(_)
TrimLeft(s) == IF s # <<>> /\ IsSpace(Head(s)) THEN TrimLeft(Tail(s)) ELSE s

RECURSIVE TrimRight(_)
TrimRight(s) ==
    IF s # <<>> /\ IsSpace(s[Len(s)]) THEN TrimRight(SubSeq(s, 1, Len(s) - 1)) ELSE s

\* strings.TrimSpace
TrimSpace(s) == TrimRight(TrimLeft(s))

\* the number of newlines in s
RECURSIVE CountNL(_)
CountNL(s) ==
    IF s = <<>> THEN 0 ELSE (IF Head(s) = "\n" THEN 1 ELSE 0) + CountNL(Tail(s))

RECURSIVE Concat(_)
Concat(ss) == IF ss = <<>> THEN <<>> ELSE Head(ss) \o Concat(Tail(ss))

-----------------------------------------------------------------------------
(* Errors *)

ErrUnmatchedOpenTag == "unmatched_open_tag"
ErrEmptyTag == "empty_tag"
ErrSectionNoClosingTag == "section_no_closing_tag"
ErrInterleavedClosingTag == "interleaved_closing_tag"
ErrInvalidMetaTag == "invalid_meta_tag"
ErrUnmatchedCloseTag == "unmatched_close_tag"
ErrInvalidVariable == "invalid_variable"

\* the nil error
NoError == [kind |-> "nil", line |-> 0, code |-> "", reason |-> <<>>]

newError(line, code) == [kind |-> "ParseError", line |-> line, code |-> code, reason |-> <<>>]

newErrorWithReason(line, code, reason) ==
    [kind |-> "ParseError", line |-> line, code |-> code, reason |-> reason]

newMissingVariableError(name) ==
    [kind |-> "MissingVariableError", line |-> 0, code |-> "", reason |-> name]

IsMissingVariableError(err) == err.kind = "MissingVariableError"

\* a run-time panic that nothing recovers
Panic == [kind |-> "panic", line |-> 0, code |-> "", reason |-> <<>>]

-----------------------------------------------------------------------------
(* The goroutines that render *)

Goroutines == {1, 2}

\* a goroutine that renders nothing yet
Idle == [state |-> "idle", ctx |-> <<>>, frames |-> <<>>, out |-> <<>>, err |-> NoError]

\* the elements a loop has left and the context chain of the loop
frame(els, contextChain) == [els |-> els, chain |-> contextChain]

-----------------------------------------------------------------------------
(* The element tree *)

textElement(text) ==
    [type |-> "text", text |-> text, name |-> <<>>, raw |-> FALSE, inverted |-> FALSE,
     startline |-> 0, elems |-> <<>>, indent |-> <<>>]

varElement(name, raw) ==
    [type |-> "var", text |-> <<>>, name |-> name, raw |-> raw, inverted |-> FALSE,
     startline |-> 0, elems |-> <<>>, indent |-> <<>>]

sectionElement(name, inverted, startline, els) ==
    [type |-> "section", text |-> <<>>, name |-> name, raw |-> FALSE, inverted |-> inverted,
     startline |-> startline, elems |-> els, indent |-> <<>>]

partialElement(name, indent) ==
    [type |-> "partial", text |-> <<>>, name |-> name, raw |-> FALSE, inverted |-> FALSE,
     startline |-> 0, elems |-> <<>>, indent |-> indent]

SkipWhitespaceTagTypes == {"#", "^", "/", "<", ">", "=", "!"}

-----------------------------------------------------------------------------
(* The tokenizer *)

\* Definitions are written so that each refers to another definition at most
\* once: what a Go function keeps in a local variable is handed on as a
\* parameter of the definition that models the rest of the function.

MatchAt(d, i, s) ==
    /\ i + Len(s) <= Len(d)
    /\ \A j \in 0 .. Len(s) - 1 : At(d, i + j) = At(s, j)

\* the loop of readString: the first i >= q at which s occurs, -1 at EOF
RECURSIVE firstMatch(_, _, _)
firstMatch(d, q, s) ==
    IF q + Len(s) > Len(d) THEN 0 - 1
    ELSE IF MatchAt(d, q, s) THEN q
    ELSE firstMatch(d, q + 1, s)

\* readString that returns, at EOF, the rest of the text less its last character
readStringAtShort(d, q, s, i) ==
    IF i < 0
    THEN [eof |-> TRUE, text |-> Slice(d, q, Len(d) - 1), p |-> q, newlines |-> 0]
    ELSE [eof |-> FALSE, text |-> Slice(d, q, i + Len(s)), p |-> i + Len(s),
          newlines |-> CountNL(Slice(d, q, i + 1))]

\* the results of readString once the loop ended at i: the text from the cursor
\* q through the occurrence of s, or the rest of the text and EOF.  curline
\* advances by the newlines passed, the first character of the match included.
readStringAt(d, q, s, i) ==
    IF i < 0
    THEN [eof |-> TRUE, text |-> Slice(d, q, Len(d)), p |-> q, newlines |-> 0]
    ELSE [eof |-> FALSE, text |-> Slice(d, q, i + Len(s)), p |-> i + Len(s),
          newlines |-> CountNL(Slice(d, q, i + 1))]

\* Template.readString
readString(d, q, s) == readStringAt(d, q, s, firstMatch(d, q, s))

\* the loop of readText: back from i over spaces and tabs, not beyond pPrev
RECURSIVE backOverBlanks(_, _, _)
backOverBlanks(d, i, pPrev) ==
    IF i > pPrev /\ At(d, i - 1) \in {" ", "\t"} THEN backOverBlanks(d, i - 1, pPrev) ELSE i

\* readText that takes every tag for the first thing on its line
readTextAtAlways(d, q, ot, rs, i) ==
    [eof |-> FALSE, text |-> Slice(d, q, i),
     padding |-> Slice(d, i, rs.p - Len(ot)), mayStandalone |-> TRUE,
     p |-> rs.p, newlines |-> rs.newlines]

\* the results of readText once its loop ended at i
readTextAt(d, q, ot, rs, i) ==
    IF i = 0 \/ At(d, i - 1) = "\n"
    THEN [eof |-> FALSE, text |-> Slice(d, q, i),
          padding |-> Slice(d, i, rs.p - Len(ot)), mayStandalone |-> TRUE,
          p |-> rs.p, newlines |-> rs.newlines]
    ELSE [eof |-> FALSE, text |-> Slice(d, q, rs.p - Len(ot)),
          padding |-> <<>>, mayStandalone |-> FALSE,
          p |-> rs.p, newlines |-> rs.newlines]

\* readText after its readString
readTextOf(d, q, ot, rs) ==
    IF rs.eof
    THEN [eof |-> TRUE, text |-> rs.text, padding |-> <<>>, mayStandalone |-> FALSE,
          p |-> rs.p, newlines |-> 0]
    ELSE readTextAt(d, q, ot, rs, backOverBlanks(d, rs.p - Len(ot), q))

\* Template.readText
readText(d, q, ot) == readTextOf(d, q, ot, readString(d, q, ot))

\* the loop of readTag that looks for the end of the blanks after the tag: eow
\* stays at the cursor when the blanks run to the end of the text
RECURSIVE firstNonBlank(_, _, _)
firstNonBlank(d, i, q) ==
    IF i >= Len(d) THEN q
    ELSE IF At(d, i) \notin {" ", "\t"} THEN i
    ELSE firstNonBlank(d, i + 1, q)

endOfWhitespace(d, q) == firstNonBlank(d, q, q)

\* what readTag returns.  The field end is the cursor just after the close
\* delimiter, before any blanks and line terminator are skipped.
TagResult(err, tag, standalone, q, line, end) ==
    [err |-> err, tag |-> tag, standalone |-> standalone, p |-> q, curline |-> line,
     end |-> end]

\* readTag from the trimmed tag on: e is the cursor after the close delimiter
readTagBody(d, e, line, mayStandalone, tag, eow) ==
    IF Len(tag) = 0
    THEN TagResult(newError(line, ErrEmptyTag), <<>>, FALSE, e, line, e)
    ELSE IF ~mayStandalone
    THEN TagResult(NoError, tag, TRUE, e, line, e)
    ELSE IF tag[1] \notin SkipWhitespaceTagTypes
    THEN TagResult(NoError, tag, FALSE, e, line, e)
    ELSE IF eow = Len(d)
    THEN TagResult(NoError, tag, TRUE, eow, line, e)
    ELSE IF eow < Len(d) /\ At(d, eow) = "\n"
    THEN TagResult(NoError, tag, TRUE, eow + 1, line + 1, e)
    ELSE IF eow + 1 < Len(d) /\ At(d, eow) = "\r" /\ At(d, eow + 1) = "\n"
    THEN TagResult(NoError, tag, TRUE, eow + 2, line + 1, e)
    ELSE TagResult(NoError, tag, FALSE, e, line, e)

\* readTag that reports an unmatched open tag on the line where the text ends
readTagOfEnd(d, q, ct, line, mayStandalone, rs) ==
    IF rs.eof
    THEN TagResult(newError(line + CountNL(rs.text), ErrUnmatchedOpenTag), <<>>, FALSE, q,
                   line, q)
    ELSE readTagBody(d, rs.p, line + rs.newlines, mayStandalone,
                     TrimSpace(SubSeq(rs.text, 1, Len(rs.text) - Len(ct))),
                     endOfWhitespace(d, rs.p))

\* readTag after its readString
readTagOf(d, q, ct, line, mayStandalone, rs) ==
    IF rs.eof
    THEN TagResult(newError(line, ErrUnmatchedOpenTag), <<>>, FALSE, q, line, q)
    ELSE readTagBody(d, rs.p, line + rs.newlines, mayStandalone,
                     TrimSpace(SubSeq(rs.text, 1, Len(rs.text) - Len(ct))),
                     endOfWhitespace(d, rs.p))

\* Template.readTag, from the cursor q just after the open delimiter
readTag(d, q, ct, line, mayStandalone) ==
    readTagOf(d, q, ct, line, mayStandalone,
              readString(d, q, IF q < Len(d) /\ At(d, q) = "{" THEN <<"}">> \o ct ELSE ct))

-----------------------------------------------------------------------------
(* The parser: one loop iteration of parse (stack empty) or of parseSection *)

\* an iteration that read a tag; sigil is the tag's first character
IterationTag(rt, tg, start) ==
    [eof |-> FALSE, text |-> rt.text, padding |-> rt.padding, err |-> tg.err,
     tag |-> tg.tag, sigil |-> IF tg.tag = <<>> THEN "" ELSE tg.tag[1],
     standalone |-> tg.standalone, p |-> tg.p, curline |-> tg.curline,
     start |-> start, end |-> tg.end]

IterationOf(rt) ==
    IF rt.eof
    THEN [eof |-> TRUE, text |-> rt.text, padding |-> <<>>, err |-> NoError, tag |-> <<>>,
          sigil |-> "", standalone |-> FALSE, p |-> p, curline |-> curline,
          start |-> p, end |-> p]
    ELSE IterationTag(rt, readTag(data, rt.p, ctag, curline + rt.newlines, rt.mayStandalone),
                      rt.p - Len(otag))

\* the readText and, unless it met EOF, the readTag of the iteration that
\* starts in the current state
Iteration == IterationOf(readText(data, p, otag))

\* the text element, and the padding element unless the tag is standalone
Emitted(it) ==
    IF it.standalone THEN <<textElement(it.text)>>
    ELSE <<textElement(it.text), textElement(it.padding)>>

\* what the iteration read: the tag and its extent, the cursor before and after,
\* the text kept for what was passed, and the sections open and the delimiters
\* in force before the tag
LastRead(it) ==
    [start |-> it.start, end |-> it.end, tag |-> it.tag, from |-> p,
     emitted |-> IF it.standalone THEN it.text ELSE it.text \o it.padding,
     after |-> it.p, depth |-> Len(stack),
     top |-> IF stack = <<>> THEN <<>> ELSE stack[Len(stack)].name,
     otag |-> otag, ctag |-> ctag]

NoRead == [start |-> 0, end |-> 0, tag |-> <<>>, from |-> 0, emitted |-> <<>>,
           after |-> 0, depth |-> 0, top |-> <<>>, otag |-> <<>>, ctag |-> <<>>]

\* a tag was read without error
TagRead(it) == ~it.eof /\ it.err = NoError

\* append to the element list being built: the innermost open section's, or the template's
AppendElems(es) ==
    IF stack = <<>>
    THEN /\ elems' = elems \o es
         /\ stack' = stack
    ELSE /\ stack' = [stack EXCEPT ![Len(stack)].elems = @ \o es]
         /\ elems' = elems

\* the cursor and line counter after readTag
Advance(it) ==
    /\ p' = it.p
    /\ curline' = it.curline
    /\ last' = LastRead(it)

\* ParseStringPartialsRaw returns nil and the error
Fail(err) ==
    /\ pc' = "error"
    /\ ret' = [tmpl |-> FALSE, err |-> err]

\* parse: readText returns EOF: the rest is a text element and parse returns nil
EndCase(it) ==
    /\ it.eof
    /\ elems' = elems \o <<textElement(it.text)>>

ParseEnd ==
    /\ pc = "parsing"
    /\ stack = <<>>
    /\ EndCase(Iteration)
    /\ pc' = "parsed"
    /\ ret' = [tmpl |-> TRUE, err |-> NoError]
    /\ UNCHANGED <<data, otag, ctag, p, curline, forceRaw, stack, last, openAt, closes>>
    /\ UNCHANGED renderVars

\* parseSection: readText returns EOF
ParseSectionEnd ==
    /\ pc = "parsing"
    /\ stack # <<>>
    /\ Iteration.eof
    /\ Fail(newErrorWithReason(stack[Len(stack)].startline, ErrSectionNoClosingTag,
                               stack[Len(stack)].name))
    /\ UNCHANGED <<data, otag, ctag, p, curline, elems, forceRaw, stack, last, openAt,
                   closes>>
    /\ UNCHANGED renderVars

\* readTag returns an error: unmatched open tag or empty tag
TagErrorCase(it) ==
    /\ ~it.eof
    /\ it.err # NoError
    /\ AppendElems(<<textElement(it.text)>>)
    /\ Advance(it)
    /\ Fail(it.err)

ParseTagError ==
    /\ pc = "parsing"
    /\ TagErrorCase(Iteration)
    /\ UNCHANGED <<data, otag, ctag, forceRaw, openAt, closes>>
    /\ UNCHANGED renderVars

\* case '!'
CommentCase(it) ==
    /\ TagRead(it)
    /\ it.sigil = "!"
    /\ AppendElems(Emitted(it))
    /\ Advance(it)

ParseComment ==
    /\ pc = "parsing"
    /\ CommentCase(Iteration)
    /\ UNCHANGED <<data, otag, ctag, forceRaw, pc, ret, openAt, closes>>
    /\ UNCHANGED renderVars

\* the line parse and parseSection record as the section's startline: curline
\* after readTag
sectionStartline(it) == it.curline

\* the sectionElement parse and parseSection build for an open tag
newSection(tag, line) == sectionElement(TrimSpace(Tail(tag)), tag[1] = "^", line, <<>>)

\* the call of parseSection: the new section is the innermost open one
PushSection(se, emitted) ==
    IF stack = <<>>
    THEN /\ elems' = elems \o emitted
         /\ stack' = <<se>>
    ELSE /\ elems' = elems
         /\ stack' = Append([stack EXCEPT ![Len(stack)].elems = @ \o emitted], se)

\* case '#', '^'
OpenSectionCase(it) ==
    /\ TagRead(it)
    /\ it.sigil \in {"#", "^"}
    /\ PushSection(newSection(it.tag, sectionStartline(it)), Emitted(it))
    /\ openAt' = Append(openAt, it.start)
    /\ Advance(it)

ParseOpenSection ==
    /\ pc = "parsing"
    /\ OpenSectionCase(Iteration)
    /\ UNCHANGED <<data, otag, ctag, forceRaw, pc, ret, closes>>
    /\ UNCHANGED renderVars

\* parse, case '/': no section is open
UnmatchedCloseCase(it) ==
    /\ TagRead(it)
    /\ it.sigil = "/"
    /\ AppendElems(Emitted(it))
    /\ Advance(it)
    /\ Fail(newError(it.curline, ErrUnmatchedCloseTag))

ParseUnmatchedClose ==
    /\ pc = "parsing"
    /\ stack = <<>>
    /\ UnmatchedCloseCase(Iteration)
    /\ UNCHANGED <<data, otag, ctag, forceRaw, openAt, closes>>
    /\ UNCHANGED renderVars

\* parseSection that takes any close tag for the close tag of the section
closeAny(name, section) == TRUE

\* parseSection returns nil when the close tag names the section
closeMatches(name, section) == name = section.name

\* parseSection returned nil: the caller appends the section se
PopSection(se, n) ==
    /\ IF n = 1
       THEN /\ elems' = elems \o <<se>>
            /\ stack' = <<>>
       ELSE /\ elems' = elems
            /\ stack' = [SubSeq(stack, 1, n - 1) EXCEPT ![n - 1].elems = @ \o <<se>>]
    /\ openAt' = SubSeq(openAt, 1, n - 1)

\* parseSection, case '/' with the close tag's name and the section as built so far
CloseSection(name, se, line) ==
    IF ~closeMatches(name, se)
    THEN /\ Fail(newErrorWithReason(line, ErrInterleavedClosingTag, name))
         /\ stack' = [stack EXCEPT ![Len(stack)] = se]
         /\ UNCHANGED <<elems, openAt, closes>>
    ELSE /\ PopSection(se, Len(stack))
         /\ closes' = Append(closes, [open |-> se.name, close |-> name])
         /\ UNCHANGED <<pc, ret>>

SectionCloseCase(it) ==
    /\ TagRead(it)
    /\ it.sigil = "/"
    /\ CloseSection(TrimSpace(Tail(it.tag)),
                    [stack[Len(stack)] EXCEPT !.elems = @ \o Emitted(it)], it.curline)
    /\ Advance(it)

\* parseSection, case '/': the section is complete and appended by the caller,
\* or the close tag names another section
ParseSectionClose ==
    /\ pc = "parsing"
    /\ stack # <<>>
    /\ SectionCloseCase(Iteration)
    /\ UNCHANGED <<data, otag, ctag, forceRaw>>
    /\ UNCHANGED renderVars

\* case '>'
PartialCase(it) ==
    /\ TagRead(it)
    /\ it.sigil = ">"
    /\ AppendElems(Emitted(it) \o <<partialElement(TrimSpace(Tail(it.tag)), it.padding)>>)
    /\ Advance(it)

ParsePartial ==
    /\ pc = "parsing"
    /\ PartialCase(Iteration)
    /\ UNCHANGED <<data, otag, ctag, forceRaw, pc, ret, openAt, closes>>
    /\ UNCHANGED renderVars

\* the position of the first space of s, 0 when there is none
RECURSIVE firstSpace(_, _)
firstSpace(s, i) ==
    IF i > Len(s) THEN 0 ELSE IF s[i] = " " THEN i ELSE firstSpace(s, i + 1)

SplitAt(s, i) ==
    IF i = 0 THEN <<s>> ELSE <<SubSeq(s, 1, i - 1), SubSeq(s, i + 1, Len(s))>>

\* strings.SplitN(s, " ", 2)
SplitSpace2(s) == SplitAt(s, firstSpace(s, 1))

\* the new delimiters taken from a tag that holds one token as well
SetDelimsOfOne(newtags) ==
    /\ otag' = newtags[1]
    /\ ctag' = IF Len(newtags) = 2 THEN newtags[2] ELSE <<>>
    /\ UNCHANGED <<pc, ret>>

\* the new delimiters, when the tag holds two
SetDelims(newtags) ==
    /\ IF Len(newtags) = 2
       THEN /\ otag' = newtags[1]
            /\ ctag' = newtags[2]
       ELSE UNCHANGED <<otag, ctag>>
    /\ UNCHANGED <<pc, ret>>

\* case '=': tag[1 : len(tag)-1] is out of range for the one-character tag "="
MetaTag(tag, line) ==
    IF tag[Len(tag)] # "="
    THEN /\ Fail(newError(line, ErrInvalidMetaTag))
         /\ UNCHANGED <<otag, ctag>>
    ELSE IF Len(tag) = 1
    THEN /\ pc' = "panic"
         /\ UNCHANGED <<otag, ctag, ret>>
    ELSE SetDelims(SplitSpace2(TrimSpace(SubSeq(tag, 2, Len(tag) - 1))))

SetDelimsCase(it) ==
    /\ TagRead(it)
    /\ it.sigil = "="
    /\ AppendElems(Emitted(it))
    /\ Advance(it)
    /\ MetaTag(it.tag, it.curline)

ParseSetDelims ==
    /\ pc = "parsing"
    /\ SetDelimsCase(Iteration)
    /\ UNCHANGED <<data, forceRaw, openAt, closes>>
    /\ UNCHANGED renderVars

\* case '{': a raw variable when the tag ends with '}', else nothing
rawTagElems(tag) ==
    IF tag[Len(tag)] = "}"
    THEN <<varElement(TrimSpace(SubSeq(tag, 2, Len(tag) - 1)), TRUE)>>
    ELSE <<>>

RawTagCase(it) ==
    /\ TagRead(it)
    /\ it.sigil = "{"
    /\ AppendElems(Emitted(it) \o rawTagElems(it.tag))
    /\ Advance(it)

ParseRawTag ==
    /\ pc = "parsing"
    /\ RawTagCase(Iteration)
    /\ UNCHANGED <<data, otag, ctag, forceRaw, pc, ret, openAt, closes>>
    /\ UNCHANGED renderVars

\* case '&'
AmpTagCase(it) ==
    /\ TagRead(it)
    /\ it.sigil = "&"
    /\ AppendElems(Emitted(it) \o <<varElement(TrimSpace(Tail(it.tag)), TRUE)>>)
    /\ Advance(it)

ParseAmpTag ==
    /\ pc = "parsing"
    /\ AmpTagCase(Iteration)
    /\ UNCHANGED <<data, otag, ctag, forceRaw, pc, ret, openAt, closes>>
    /\ UNCHANGED renderVars

Sigils == {"!", "#", "^", "/", ">", "=", "{", "&"}

\* default: a variable
VariableCase(it) ==
    /\ TagRead(it)
    /\ it.sigil \notin Sigils
    /\ AppendElems(Emitted(it) \o <<varElement(it.tag, forceRaw)>>)
    /\ Advance(it)

ParseVariable ==
    /\ pc = "parsing"
    /\ VariableCase(Iteration)
    /\ UNCHANGED <<data, otag, ctag, forceRaw, pc, ret, openAt, closes>>
    /\ UNCHANGED renderVars

-----------------------------------------------------------------------------
(* ParseString as a function of the text: the loop of parse and parseSection  *)
(* run to its end on a record of the Template's fields.  The render callback  *)
(* of a lambda section compiles its text with it.                             *)

\* the Template of ParseStringPartialsRaw, with the sections being parsed
templateOf(text, raw) ==
    [data |-> text, otag |-> <<"{", "{">>, ctag |-> <<"}", "}">>, p |-> 0, curline |-> 1,
     elems |-> <<>>, forceRaw |-> raw, stack |-> <<>>, done |-> FALSE, err |-> NoError]

\* the iteration that starts at the cursor of t, after its readText
iterationOn(t, rt) ==
    IF rt.eof
    THEN [eof |-> TRUE, text |-> rt.text, padding |-> <<>>, err |-> NoError, tag |-> <<>>,
          sigil |-> "", standalone |-> FALSE, p |-> t.p, curline |-> t.curline,
          start |-> t.p, end |-> t.p]
    ELSE IterationTag(rt, readTag(t.data, rt.p, t.ctag, t.curline + rt.newlines,
                                  rt.mayStandalone),
                      rt.p - Len(t.otag))

iterationAt(t) == iterationOn(t, readText(t.data, t.p, t.otag))

\* t with es appended to the element list being built
appended(t, es) ==
    IF t.stack = <<>> THEN [t EXCEPT !.elems = @ \o es]
    ELSE [t EXCEPT !.stack[Len(t.stack)].elems = @ \o es]

\* t after readTag moved the cursor
advanced(t, it) == [t EXCEPT !.p = it.p, !.curline = it.curline]

\* parse or parseSection returns the error
failed(t, err) == [t EXCEPT !.done = TRUE, !.err = err]

\* case '/' of parseSection, with n sections open
closed(t, name, n, line) ==
    IF name # t.stack[n].name
    THEN failed(t, newErrorWithReason(line, ErrInterleavedClosingTag, name))
    ELSE appended([t EXCEPT !.stack = SubSeq(t.stack, 1, n - 1)], <<t.stack[n]>>)

\* case '=' once the tag is known to end with '='
delimsSet(t, newtags) ==
    IF Len(newtags) = 2 THEN [t EXCEPT !.otag = newtags[1], !.ctag = newtags[2]] ELSE t

\* the switch on tag[0], after the text and the padding were appended
switched(t, it) ==
    CASE it.sigil = "!" -> t
      [] it.sigil \in {"#", "^"} ->
            [t EXCEPT !.stack = Append(@, newSection(it.tag, sectionStartline(it)))]
      [] it.sigil = "/" ->
            IF t.stack = <<>> THEN failed(t, newError(it.curline, ErrUnmatchedCloseTag))
            ELSE closed(t, TrimSpace(Tail(it.tag)), Len(t.stack), it.curline)
      [] it.sigil = ">" ->
            appended(t, <<partialElement(TrimSpace(Tail(it.tag)), it.padding)>>)
      [] it.sigil = "=" ->
            IF it.tag[Len(it.tag)] # "=" THEN failed(t, newError(it.curline, ErrInvalidMetaTag))
            ELSE IF Len(it.tag) = 1 THEN failed(t, Panic)
            ELSE delimsSet(t, SplitSpace2(TrimSpace(SubSeq(it.tag, 2, Len(it.tag) - 1))))
      [] it.sigil = "{" -> appended(t, rawTagElems(it.tag))
      [] it.sigil = "&" -> appended(t, <<varElement(TrimSpace(Tail(it.tag)), TRUE)>>)
      [] OTHER -> appended(t, <<varElement(it.tag, t.forceRaw)>>)

\* one iteration of the loop of parse or parseSection
iterated(t, it) ==
    IF it.eof
    THEN (IF t.stack = <<>>
          THEN [t EXCEPT !.elems = @ \o <<textElement(it.text)>>, !.done = TRUE]
          ELSE failed(t, newErrorWithReason(t.stack[Len(t.stack)].startline,
                                            ErrSectionNoClosingTag,
                                            t.stack[Len(t.stack)].name)))
    ELSE IF it.err # NoError
    THEN failed(advanced(appended(t, <<textElement(it.text)>>), it), it.err)
    ELSE switched(advanced(appended(t, Emitted(it)), it), it)

\* Template.parse to its return
RECURSIVE parsed(_)
parsed(t) == IF t.done THEN t ELSE parsed(iterated(t, iterationAt(t)))

\* ParseStringRaw: the compiled elements, or the error
ParseStringRaw(text, raw) == parsed(templateOf(text, raw))

\* ParseString
ParseString(text) == ParseStringRaw(text, FALSE)

-----------------------------------------------------------------------------
(* Values: what reflect.Value holds, with pointers and interfaces unwrapped. *)
(* kind "invalid" is the zero reflect.Value, kind "nil" a nil interface.     *)
(* A bool keeps 0 or 1 in num; a map or struct keeps its keys (field names)  *)
(* in keys, in sorted order, and their values in vals.                       *)

Val(kind, str, num, items, keys, vals, isnil) ==
    [kind |-> kind, str |-> str, num |-> num, items |-> items, keys |-> keys,
     vals |-> vals, isnil |-> isnil]

Invalid == Val("invalid", <<>>, 0, <<>>, <<>>, <<>>, TRUE)
VNil == Val("nil", <<>>, 0, <<>>, <<>>, <<>>, TRUE)
VString(s) == Val("string", s, 0, <<>>, <<>>, <<>>, FALSE)
VInt(n) == Val("int", <<>>, n, <<>>, <<>>, <<>>, FALSE)
VBool(b) == Val("bool", <<>>, IF b THEN 1 ELSE 0, <<>>, <<>>, <<>>, FALSE)
\* a float64 and a complex128 with real part 0, kept as the text fmt prints
\* for the number and for the imaginary part
VFloat(s) == Val("float", s, 0, <<>>, <<>>, <<>>, FALSE)
VComplex(s) == Val("complex", s, 0, <<>>, <<>>, <<>>, FALSE)
VSlice(items) == Val("slice", <<>>, 0, items, <<>>, <<>>, FALSE)
VNilSlice == Val("slice", <<>>, 0, <<>>, <<>>, <<>>, TRUE)
VMap(keys, vals) == Val("map", <<>>, 0, <<>>, keys, vals, FALSE)
VNilMap == Val("map", <<>>, 0, <<>>, <<>>, <<>>, TRUE)
VStruct(keys, vals) == Val("struct", <<>>, 0, <<>>, keys, vals, FALSE)

\* what the lambdas of the model do with the section text and the callback:
\* return the text, return render(text), return render(own text), return the
\* own text, return an error
Echo == <<"e", "c", "h", "o">>
Rerender == <<"r", "e", "r", "e", "n", "d", "e", "r">>
RenderOwn == <<"r", "e", "n", "d", "e", "r", "o", "w", "n">>
ReturnOwn == <<"r", "e", "t", "u", "r", "n", "o", "w", "n">>
FailOwn == <<"f", "a", "i", "l">>

\* a func value: what it does, the text it holds, and whether it has two
\* parameters and two results
VFunc(does, text, lambdaFunc) ==
    Val("func", text, IF lambdaFunc THEN 1 ELSE 0, <<>>, <<does>>, <<>>, FALSE)

\* the error a failing lambda returns
LambdaFailure == [kind |-> "LambdaFailure", line |-> 0, code |-> "", reason |-> <<>>]

\* fmt.Errorf("lambda %q: %w", section.name, err): the name, and of the wrapped
\* error its kind or its code and line
LambdaError(name, err) ==
    [kind |-> "LambdaError", line |-> err.line,
     code |-> IF err.code = "" THEN err.kind ELSE err.code, reason |-> name]

\* fmt.Errorf("lambda %q doesn't match required LambaFunc signature", section.name)
LambdaSignatureError(name) ==
    [kind |-> "LambdaSignatureError", line |-> 0, code |-> "", reason |-> name]

\* no left-hand value: the nil `left` of lookup
\* a method of a type: its name, the number of its parameters with the
\* receiver, the number of its results, and what it does: return result, return
\* the name it was given, or return an error
Method(name, numIn, numOut, does, result) ==
    [name |-> name, numIn |-> numIn, numOut |-> numOut, does |-> does, result |-> result]

LookupName == <<"L", "o", "o", "k", "u", "p">>

\* a record with methods, in the order of their names
VObject(methods, keys, vals) == Val("struct", <<>>, 0, methods, keys, vals, FALSE)

\* the error a failing Lookup method returns
LookupFailure == [kind |-> "LookupFailure", line |-> 0, code |-> "", reason |-> <<>>]

NoLeft == Val("noleft", <<>>, 0, <<>>, <<>>, <<>>, TRUE)

\* the error strconv.Atoi returns
NumError(name) == [kind |-> "NumError", line |-> 0, code |-> "", reason |-> name]

Digits == <<"0", "1", "2", "3", "4", "5", "6", "7", "8", "9">>

DigitVal(c) == (CHOOSE i \in 1 .. 10 : Digits[i] = c) - 1

IsDigit(c) == \E i \in 1 .. 10 : Digits[i] = c

\* strconv.Itoa
RECURSIVE NatToStr(_)
NatToStr(n) == IF n < 10 THEN <<Digits[n + 1]>> ELSE NatToStr(n \div 10) \o <<Digits[(n % 10) + 1]>>

IntToStr(n) == IF n < 0 THEN <<"-">> \o NatToStr(-n) ELSE NatToStr(n)

RECURSIVE DigitsToNat(_)
DigitsToNat(s) ==
    IF s = <<>> THEN 0 ELSE DigitsToNat(SubSeq(s, 1, Len(s) - 1)) * 10 + DigitVal(s[Len(s)])

\* a decimal integer: an optional sign and one or more digits
IsDecimal(s) ==
    LET body == IF s # <<>> /\ s[1] \in {"+", "-"} THEN Tail(s) ELSE s IN
    /\ body # <<>>
    /\ \A i \in 1 .. Len(body) : IsDigit(body[i])

DecimalVal(s) ==
    IF s[1] = "-" THEN 0 - DigitsToNat(Tail(s))
    ELSE IF s[1] = "+" THEN DigitsToNat(Tail(s)) ELSE DigitsToNat(s)

\* s without its sign
Unsigned(s) == IF s # <<>> /\ s[1] \in {"+", "-"} THEN Tail(s) ELSE s

OctalDigits == {"0", "1", "2", "3", "4", "5", "6", "7"}

RECURSIVE OctalToNat(_)
OctalToNat(s) ==
    IF s = <<>> THEN 0 ELSE OctalToNat(SubSeq(s, 1, Len(s) - 1)) * 8 + DigitVal(s[Len(s)])

\* strconv.ParseInt(name, 0, 64) succeeds on body, the name without its sign:
\* decimal digits, after a leading 0 octal digits.  The names of this model
\* are short and hold no base prefix with a letter and no underscore.
IsIntBody(body) ==
    /\ body # <<>>
    /\ \A i \in 1 .. Len(body) : IsDigit(body[i])
    /\ (body[1] = "0" => \A i \in 1 .. Len(body) : body[i] \in OctalDigits)

IntBodyVal(body) == IF body[1] = "0" THEN OctalToNat(body) ELSE DigitsToNat(body)

IntVal(name) == IF name[1] = "-" THEN 0 - IntBodyVal(Tail(name)) ELSE IntBodyVal(Unsigned(name))

\* strconv.ParseFloat(name, 64) succeeds on body: digits with at most one
\* point.  The names of this model hold no exponent and are not inf or nan.
IsFloatBody(body) ==
    /\ \E i \in 1 .. Len(body) : IsDigit(body[i])
    /\ \A i \in 1 .. Len(body) : IsDigit(body[i]) \/ body[i] = "."
    /\ Cardinality({i \in 1 .. Len(body) : body[i] = "."}) <= 1

RECURSIVE StripLeftZeros(_)
StripLeftZeros(s) == IF s # <<>> /\ s[1] = "0" THEN StripLeftZeros(Tail(s)) ELSE s

RECURSIVE StripRightZeros(_)
StripRightZeros(s) ==
    IF s # <<>> /\ s[Len(s)] = "0" THEN StripRightZeros(SubSeq(s, 1, Len(s) - 1)) ELSE s

\* the position of the point in body, or one past its end
PointAt(body) ==
    Min({i \in 1 .. Len(body) : body[i] = "."} \cup {Len(body) + 1})

\* the %v text of the float with the whole digits w and the fraction digits f
FloatText(w, f) ==
    (IF w = <<>> THEN <<"0">> ELSE w) \o (IF f = <<>> THEN <<>> ELSE <<".">> \o f)

FloatBodyText(body, at) ==
    FloatText(StripLeftZeros(SubSeq(body, 1, at - 1)),
              StripRightZeros(SubSeq(body, at + 1, Len(body))))

\* the %v text of the float64 ParseFloat gives for name
FormatFloat(name) ==
    (IF name[1] = "-" THEN <<"-">> ELSE <<>>) \o FloatBodyText(Unsigned(name), PointAt(Unsigned(name)))

\* strconv.ParseComplex(name, 64) succeeds on a name ParseFloat refused: an
\* imaginary number, a float and the letter i
IsImaginary(name) ==
    /\ Len(name) > 1
    /\ name[Len(name)] = "i"
    /\ IsFloatBody(Unsigned(SubSeq(name, 1, Len(name) - 1)))

\* the value's key position, or 0
KeyIndex(v, name) ==
    LET C == {i \in 1 .. Len(v.keys) : v.keys[i] = name} IN
    IF C = {} THEN 0 ELSE Min(C)

\* fmt.Sprint of the value
RECURSIVE Sprint(_)
RECURSIVE SprintItems(_)
RECURSIVE SprintEntries(_, _)
Sprint(v) ==
    CASE v.kind = "nil" -> <<"<", "n", "i", "l", ">">>
      [] v.kind = "string" -> v.str
      [] v.kind = "int" -> IntToStr(v.num)
      [] v.kind = "bool" -> IF v.num = 1 THEN <<"t", "r", "u", "e">>
                            ELSE <<"f", "a", "l", "s", "e">>
      [] v.kind = "slice" -> <<"[">> \o SprintItems(v.items) \o <<"]">>
      [] v.kind = "map" -> <<"m", "a", "p", "[">> \o SprintEntries(v.keys, v.vals) \o <<"]">>
      [] v.kind = "struct" -> <<"{">> \o SprintItems(v.vals) \o <<"}">>
      [] v.kind = "func" -> <<"0", "x", "f">>
      [] v.kind = "float" -> v.str
      [] v.kind = "complex" ->
            <<"(", "0">> \o (IF v.str[1] = "-" THEN <<>> ELSE <<"+">>) \o v.str \o <<"i", ")">>

SprintItems(items) ==
    IF items = <<>> THEN <<>>
    ELSE IF Len(items) = 1 THEN Sprint(items[1])
    ELSE Sprint(items[1]) \o <<" ">> \o SprintItems(Tail(items))

SprintEntries(keys, vals) ==
    IF keys = <<>> THEN <<>>
    ELSE keys[1] \o <<":">> \o Sprint(vals[1]) \o
         (IF Len(keys) = 1 THEN <<>> ELSE <<" ">> \o SprintEntries(Tail(keys), Tail(vals)))

\* template.HTMLEscapeString, the default Template.escape
HTMLEscapeChar(c) ==
    CASE c = "&" -> <<"&", "a", "m", "p", ";">>
      [] c = "<" -> <<"&", "l", "t", ";">>
      [] c = ">" -> <<"&", "g", "t", ";">>
      [] c = "'" -> <<"&", "#", "3", "9", ";">>
      [] c = "\"" -> <<"&", "#", "3", "4", ";">>
      [] OTHER -> <<c>>

RECURSIVE HTMLEscapeString(_)
HTMLEscapeString(s) ==
    IF s = <<>> THEN <<>> ELSE HTMLEscapeChar(Head(s)) \o HTMLEscapeString(Tail(s))

-----------------------------------------------------------------------------
(* The path resolver *)

startsWithNumber(s) == s # <<>> /\ IsDigit(s[1])

\* strings.IndexAny(name, ".[("), 1-based, 0 when there is none
IndexAny(name) ==
    LET C == {i \in 1 .. Len(name) : name[i] \in {".", "[", "("}} IN
    IF C = {} THEN 0 ELSE Min(C)

IsQuoted(name) ==
    /\ name # <<>>
    /\ \/ name[1] = "\"" /\ name[Len(name)] = "\""
       \/ name[1] = "'" /\ name[Len(name)] = "'"

\* the texts strconv.ParseBool accepts, those made of digits aside (ParseInt
\* takes them first)
BoolTrue == {<<"t">>, <<"T">>, <<"T", "R", "U", "E">>, <<"t", "r", "u", "e">>,
             <<"T", "r", "u", "e">>}
BoolFalse == {<<"f">>, <<"F">>, <<"F", "A", "L", "S", "E">>, <<"f", "a", "l", "s", "e">>,
              <<"F", "a", "l", "s", "e">>}

Found(v) == [res |-> "done", v |-> v, err |-> NoError]

NextContext == [res |-> "next", v |-> Invalid, err |-> NoError]

\* case reflect.Struct and case reflect.Map, with the position of the field or key
probeKey(v, i) == IF i > 0 THEN Found(v.vals[i]) ELSE NextContext

\* av.Index(index): out of range it panics, and the deferred recover of lookup
\* makes lookup return the zero Value and a nil error
probeIndex(v, index) ==
    IF index < 0 \/ index >= Len(v.items) THEN Found(Invalid) ELSE Found(v.items[index + 1])

\* case reflect.Slice
probeSlice(v, name) ==
    IF name \in {<<"l", "e", "n", "g", "t", "h">>, <<"l", "e", "n">>}
    THEN Found(VInt(Len(v.items)))
    ELSE IF ~IsDecimal(name)
    THEN [res |-> "done", v |-> v, err |-> NumError(name)]
    ELSE probeIndex(v, DecimalVal(name))

\* the switch on av.Kind() and the test of "." before it: a value, an error,
\* or "next" (continue Outer, or the end of the loop over v)
probeKind(v, name) ==
    CASE v.kind = "invalid" -> NextContext
      [] v.kind # "invalid" /\ name = <<".">> -> Found(v)
      [] v.kind = "nil" /\ name # <<".">> -> NextContext
      [] v.kind \in {"struct", "map"} /\ name # <<".">> -> probeKey(v, KeyIndex(v, name))
      [] v.kind = "slice" /\ name # <<".">> -> probeSlice(v, name)
      [] OTHER -> NextContext

\* v.Method(i).Call of a Lookup method: its error with v, or its value
callLookup(v, name, m) ==
    IF m.does = "fail" THEN [res |-> "done", v |-> v, err |-> LookupFailure]
    ELSE Found(VString(name))

\* the loop over the methods of the type, in the order of typ.Method(i), which
\* is that of their names: a method Lookup with two parameters, the receiver
\* counted, and two results is called with name; a method called name with no
\* parameter but the receiver is called; after the last method comes the
\* switch on the kind
RECURSIVE probeMethods(_, _, _)
probeMethods(v, name, ms) ==
    IF ms = <<>> THEN probeKind(v, name)
    ELSE IF Head(ms).name = LookupName /\ Head(ms).numIn = 2 /\ Head(ms).numOut = 2
    THEN callLookup(v, name, Head(ms))
    ELSE IF Head(ms).name = name /\ Head(ms).numIn = 1 THEN Found(Head(ms).result)
    ELSE probeMethods(v, name, Tail(ms))

\* one context of the chain probed for name
probeContext(v, name) ==
    probeMethods(v, name, IF v.kind = "struct" THEN v.items ELSE <<>>)

RECURSIVE lookupChain(_, _)

lookupChainOn(localChain, name, r) ==
    IF r.res = "done" THEN [v |-> r.v, err |-> r.err]
    ELSE lookupChain(Tail(localChain), name)

\* the loop Outer of lookup over localChain
lookupChain(localChain, name) ==
    IF localChain = <<>>
    THEN [v |-> Invalid, err |-> newMissingVariableError(name)]
    ELSE lookupChainOn(localChain, name, probeContext(Head(localChain), name))

RECURSIVE lookup(_, _, _)

\* dot notation, after the lookup of the part before the first dot
dotPath(contextChain, name, r, rest) ==
    IF r.err # NoError THEN r
    ELSE IF startsWithNumber(rest)
    THEN [v |-> r.v, err |-> newErrorWithReason(0, ErrInvalidVariable, name)]
    ELSE lookup(contextChain, r.v, rest)

\* the literal forms, tried in the order of the code: the quoted string (of
\* one quote alone the slice name[1:0] panics and the deferred recover makes
\* lookup return the zero Value and a nil error), ParseInt, ParseFloat,
\* ParseBool, ParseComplex; "next" when name is no literal.  ParseUint takes
\* only what ParseInt refused for its range, which no short name is.
literal(name) ==
    IF IsQuoted(name)
    THEN Found(IF Len(name) = 1 THEN Invalid ELSE VString(SubSeq(name, 2, Len(name) - 1)))
    ELSE IF IsIntBody(Unsigned(name)) THEN Found(VInt(IntVal(name)))
    ELSE IF IsFloatBody(Unsigned(name)) THEN Found(VFloat(FormatFloat(name)))
    ELSE IF name \in BoolTrue \cup BoolFalse THEN Found(VBool(name \in BoolTrue))
    ELSE IF IsImaginary(name)
    THEN Found(VComplex(FormatFloat(SubSeq(name, 1, Len(name) - 1))))
    ELSE NextContext

\* the literal, or the loop over the local chain
literalOr(contextChain, left, name, lit) ==
    IF lit.res = "done" THEN [v |-> lit.v, err |-> NoError]
    ELSE lookupChain(IF left # NoLeft THEN <<left>> ELSE contextChain, name)

\* unwrap: the value in a pointer or an interface, the zero Value for nil
unwrap(v) == IF v.kind = "nil" THEN Invalid ELSE v

\* a panic in lookup: the deferred recover makes lookup return the zero Value
\* and a nil error
Recovered == [res |-> "return", v |-> Invalid, err |-> NoError]

\* return v, newErrorWithReason(0, ErrInvalidVariable, name)
InvalidVariable(v, name) ==
    [res |-> "return", v |-> v, err |-> newErrorWithReason(0, ErrInvalidVariable, name)]

\* v.MapIndex(indexValue) of a map with string keys, with the position i of
\* the key
mapIndexed(v, name, i) == IF i = 0 THEN InvalidVariable(Invalid, name) ELSE Found(v.vals[i])

\* v.Index(index): out of range it panics
sliceIndexed(v, index) ==
    IF index < 0 \/ index >= Len(v.items) THEN Recovered ELSE Found(v.items[index + 1])

\* the int a float converts to, from its %v text: the whole digits
TruncVal(s) == DecimalVal(SubSeq(s, 1, PointAt(s) - 1))

\* lines 918-935: the element of the map or slice v at indexValue.  MapIndex
\* panics on a key that is no string; of the kinds of the model an int and a
\* float convert to int, CanConvert panics on the zero Value
indexed(v, indexValue, name) ==
    CASE v.kind = "map" /\ indexValue.kind = "string" ->
            mapIndexed(v, name, KeyIndex(v, indexValue.str))
      [] v.kind = "map" /\ indexValue.kind # "string" -> Recovered
      [] v.kind = "slice" /\ indexValue.kind = "int" -> sliceIndexed(v, indexValue.num)
      [] v.kind = "slice" /\ indexValue.kind = "float" ->
            sliceIndexed(v, TruncVal(indexValue.str))
      [] v.kind = "slice" /\ indexValue.kind = "invalid" -> Recovered
      [] OTHER -> InvalidVariable(v, name)

\* lines 937-941: the element, or the rest of the name looked up in it
indexRest(contextChain, r, rest) ==
    IF r.res = "done" /\ rest # <<>> THEN lookup(contextChain, r.v, rest)
    ELSE [v |-> r.v, err |-> r.err]

\* the index notation after the lookups of the array a and of the index i
indexOn(contextChain, name, a, i, rest) ==
    IF a.err # NoError THEN a
    ELSE IF i.err # NoError THEN [v |-> unwrap(a.v), err |-> i.err]
    ELSE indexRest(contextChain, indexed(unwrap(a.v), unwrap(i.v), name), rest)

\* the rest of the name after the closing bracket, without its leading dot
restOf(rest) == IF rest # <<>> /\ rest[1] = "." THEN Tail(rest) ELSE rest

\* strings.Index(name, c), 1-based, 0 when there is none
Index(name, c) == Min({i \in 1 .. Len(name) : name[i] = c} \cup {Len(name) + 1}) % (Len(name) + 1)

\* index notation, with the positions of the first [ and the first ]: the
\* slice name[openIndex+1 : closeIndex] panics when ] comes first, and so does
\* left.(reflect.Value) when the name starts with [ and there is no left
indexPath(contextChain, left, name, openIndex, closeIndex) ==
    IF closeIndex < openIndex \/ (openIndex = 1 /\ left = NoLeft)
    THEN [v |-> Invalid, err |-> NoError]
    ELSE indexOn(contextChain, name,
                 IF openIndex > 1 THEN lookup(contextChain, left, SubSeq(name, 1, openIndex - 1))
                 ELSE [v |-> left, err |-> NoError],
                 lookup(contextChain, NoLeft, SubSeq(name, openIndex + 1, closeIndex - 1)),
                 restOf(SubSeq(name, closeIndex + 1, Len(name))))

\* lookup with the position of the first of . [ ( in name: the dot notation,
\* the index notation, and otherwise the literals and the context chain.  The
\* names of this model hold no parentheses.
lookupAt(contextChain, left, name, index) ==
    IF index > 0 /\ name[index] = "." /\ name # <<".">>
    THEN dotPath(contextChain, name,
                 lookup(contextChain, left, SubSeq(name, 1, index - 1)),
                 SubSeq(name, index + 1, Len(name)))
    ELSE IF index > 0 /\ name[index] = "[" /\ Index(name, "]") > 0
    THEN indexPath(contextChain, left, name, index, Index(name, "]"))
    ELSE literalOr(contextChain, left, name, literal(name))

lookup(contextChain, left, name) == lookupAt(contextChain, left, name, IndexAny(name))

\* lookupAllowMissing after its lookup
allowMissingOf(r, allow) ==
    IF r.err # NoError /\ allow /\ IsMissingVariableError(r.err)
    THEN [v |-> Invalid, err |-> NoError]
    ELSE r

lookupAllowMissing(contextChain, name, allow) ==
    allowMissingOf(lookup(contextChain, NoLeft, name), allow)

-----------------------------------------------------------------------------
(* The renderer *)

\* reflect.Value.IsZero
RECURSIVE IsZero(_)
IsZero(v) ==
    CASE v.kind = "string" -> v.str = <<>>
      [] v.kind \in {"int", "bool"} -> v.num = 0
      [] v.kind \in {"slice", "map", "nil"} -> v.isnil
      [] v.kind = "struct" -> \A i \in 1 .. Len(v.vals) : IsZero(v.vals[i])
      [] OTHER -> FALSE

\* isEmpty that takes the length of a string without trimming it
isEmptyUntrimmed(v) ==
    CASE v.kind \in {"invalid", "nil"} -> TRUE
      [] v.kind = "slice" -> Len(v.items) = 0
      [] v.kind = "string" -> Len(v.str) = 0
      [] OTHER -> IsZero(v)

isEmpty(v) ==
    CASE v.kind \in {"invalid", "nil"} -> TRUE
      [] v.kind = "slice" -> Len(v.items) = 0
      [] v.kind = "string" -> Len(TrimSpace(v.str)) = 0
      [] OTHER -> IsZero(v)

\* the partial provider of the model holds no template: every name gives the
\* empty text, whose compiled form is one empty text element
getPartials(name, indent) == [elems |-> <<textElement(<<>>)>>, err |-> NoError]

\* the escape functions of the model: template.HTMLEscapeString, the default,
\* and two that a caller may set with Template.Escape
HTMLEscape == "html"
EscapeFuncs == {HTMLEscape, "none", "brackets"}

\* tmpl.escape(s)
escaped(esc, s) ==
    CASE esc = HTMLEscape -> HTMLEscapeString(s)
      [] esc = "brackets" -> <<"[">> \o s \o <<"]">>
      [] OTHER -> s

\* fmt.Errorf("unexpected element type %T", elem)
UnexpectedElement ==
    [kind |-> "UnexpectedElementError", line |-> 0, code |-> "", reason |-> <<>>]

RECURSIVE getElementText(_)
RECURSIVE getSectionText(_)

\* the text written so far and the error, if any, of what follows
ThenText(text, rest) == [out |-> text \o rest.out, err |-> rest.err]

getSectionTextOn(r, elements) ==
    IF r.err # NoError THEN r ELSE ThenText(r.out, getSectionText(Tail(elements)))

\* getSectionText: the elements written back as text and tags
getSectionText(elements) ==
    IF elements = <<>> THEN [out |-> <<>>, err |-> NoError]
    ELSE getSectionTextOn(getElementText(Head(elements)), elements)

\* case *sectionElement of getElementText, after the elements of the section
sectionText(elem, r) ==
    IF r.err # NoError
    THEN [out |-> <<"{", "{", IF elem.inverted THEN "^" ELSE "#">> \o elem.name
                      \o <<"}", "}">> \o r.out,
          err |-> r.err]
    ELSE [out |-> <<"{", "{", IF elem.inverted THEN "^" ELSE "#">> \o elem.name
                      \o <<"}", "}">> \o r.out \o <<"{", "{", "/">> \o elem.name
                      \o <<"}", "}">>,
          err |-> NoError]

getElementText(elem) ==
    CASE elem.type = "text" -> [out |-> elem.text, err |-> NoError]
      [] elem.type = "var" ->
            [out |-> IF elem.raw THEN <<"{", "{", "{">> \o elem.name \o <<"}", "}", "}">>
                     ELSE <<"{", "{">> \o elem.name \o <<"}", "}">>,
             err |-> NoError]
      [] elem.type = "section" -> sectionText(elem, getSectionText(elem.elems))
      [] OTHER -> [out |-> <<>>, err |-> UnexpectedElement]

\* renderSection that renders the body once against the value, of whatever kind
sectionContextsOnce(value) == <<value>>

\* the contexts a non-inverted section renders its body against
sectionContexts(value) ==
    IF value.kind = "slice" THEN value.items ELSE <<value>>

\* the context an inverted section renders its body against
invertedContexts(contextChain) == <<contextChain[1]>>

RECURSIVE renderElement(_, _, _, _)
RECURSIVE renderList(_, _, _, _)
RECURSIVE renderContexts(_, _, _, _, _)

\* what was written so far and the error, if any, of what follows
ThenOut(r, rest) == [out |-> r.out \o rest.out, err |-> rest.err]

renderListOn(r, els, contextChain, allow, esc) ==
    IF r.err # NoError THEN r
    ELSE ThenOut(r, renderList(Tail(els), contextChain, allow, esc))

\* renderTemplate, and the inner loop of renderSection: the elements in order,
\* stopping at the first error; esc is the escape function of the template
renderList(els, contextChain, allow, esc) ==
    IF els = <<>> THEN [out |-> <<>>, err |-> NoError]
    ELSE renderListOn(renderElement(Head(els), contextChain, allow, esc), els, contextChain,
                      allow, esc)

renderContextsOn(r, els, contexts, contextChain, allow, esc) ==
    IF r.err # NoError THEN r
    ELSE ThenOut(r, renderContexts(els, Tail(contexts), contextChain, allow, esc))

\* the outer loop of renderSection: chain2[0] = ctx for each of contexts
renderContexts(els, contexts, contextChain, allow, esc) ==
    IF contexts = <<>> THEN [out |-> <<>>, err |-> NoError]
    ELSE renderContextsOn(renderList(els, <<Head(contexts)>> \o contextChain, allow, esc),
                          els, contexts, contextChain, allow, esc)

\* the render callback after its renderTemplate
callbackRendered(r) == IF r.err # NoError THEN [out |-> <<>>, err |-> r.err] ELSE r

\* a callback that renders against the outermost context alone
callbackOnOutermost(t, contextChain, allow) ==
    IF t.err # NoError THEN [out |-> <<>>, err |-> t.err]
    ELSE callbackRendered(renderList(t.elems, <<contextChain[Len(contextChain)]>>, allow,
                                     HTMLEscape))

\* the render callback after its ParseString: the new template is rendered with
\* renderTemplate against the context chain of the section, and an error gives
\* the empty string
callbackOn(t, contextChain, allow) ==
    IF t.err # NoError THEN [out |-> <<>>, err |-> t.err]
    ELSE callbackRendered(renderList(t.elems, contextChain, allow, HTMLEscape))

\* the callback `render` that renderSection hands to a lambda
renderCallback(text, contextChain, allow) ==
    callbackOn(ParseString(text), contextChain, allow)

\* val.Call(in): what the lambda returns for the section text and the callback
lambdaCall(fn, text, contextChain, allow) ==
    CASE fn.keys = <<Echo>> -> [out |-> text, err |-> NoError]
      [] fn.keys = <<Rerender>> -> renderCallback(text, contextChain, allow)
      [] fn.keys = <<RenderOwn>> -> renderCallback(fn.str, contextChain, allow)
      [] fn.keys = <<ReturnOwn>> -> [out |-> fn.str, err |-> NoError]
      [] OTHER -> [out |-> <<>>, err |-> LambdaFailure]

\* case reflect.Func after val.Call: a non-nil error is wrapped and returned,
\* else the string is written as it is
lambdaWritten(name, res) ==
    IF res.err # NoError THEN [out |-> <<>>, err |-> LambdaError(name, res.err)]
    ELSE [out |-> res.out, err |-> NoError]

\* case reflect.Func after getSectionText
lambdaOn(section, contextChain, allow, fn, text) ==
    IF text.err # NoError THEN [out |-> <<>>, err |-> text.err]
    ELSE lambdaWritten(section.name, lambdaCall(fn, text.out, contextChain, allow))

\* case reflect.Func of renderSection
renderLambda(section, contextChain, allow, fn) ==
    IF fn.num # 1 THEN [out |-> <<>>, err |-> LambdaSignatureError(section.name)]
    ELSE lambdaOn(section, contextChain, allow, fn, getSectionText(section.elems))

\* renderSection once the value is known to be empty or not
sectionBody(section, contextChain, allow, esc, value, empty) ==
    IF (empty /\ ~section.inverted) \/ (~empty /\ section.inverted)
    THEN [out |-> <<>>, err |-> NoError]
    ELSE IF ~section.inverted /\ value.kind = "func"
    THEN renderLambda(section, contextChain, allow, value)
    ELSE renderContexts(section.elems,
                        IF section.inverted THEN invertedContexts(contextChain)
                        ELSE sectionContexts(value),
                        contextChain, allow, esc)

\* renderSection after its lookup; contextChain[0] of an empty chain panics
sectionOf(section, contextChain, allow, esc, r) ==
    IF r.err # NoError THEN [out |-> <<>>, err |-> r.err]
    ELSE IF contextChain = <<>> THEN [out |-> <<>>, err |-> Panic]
    ELSE sectionBody(section, contextChain, allow, esc, r.v, isEmpty(r.v))

\* Template.renderSection
renderSection(section, contextChain, allow, esc) ==
    sectionOf(section, contextChain, allow, esc,
              lookupAllowMissing(contextChain, section.name, TRUE))

\* the string a variable writes: raw, or through the escape function
varText(esc, raw, text) == IF raw THEN text ELSE escaped(esc, text)

\* case *varElement after its lookup, with no formatter
renderVar(elem, esc, r) ==
    IF r.err # NoError THEN [out |-> <<>>, err |-> r.err]
    ELSE IF r.v.kind = "invalid" THEN [out |-> <<>>, err |-> NoError]
    ELSE [out |-> varText(esc, elem.raw, Sprint(r.v)), err |-> NoError]

\* case *partialElement after getPartials: the partial is a template of its
\* own, with the default escape function
renderPartial(partial, contextChain, allow) ==
    IF partial.err # NoError THEN [out |-> <<>>, err |-> partial.err]
    ELSE renderList(partial.elems, contextChain, allow, HTMLEscape)

\* Template.renderElement
renderElement(elem, contextChain, allow, esc) ==
    CASE elem.type = "text" -> [out |-> elem.text, err |-> NoError]
      [] elem.type = "var" ->
            renderVar(elem, esc, lookupAllowMissing(contextChain, elem.name, allow))
      [] elem.type = "section" -> renderSection(elem, contextChain, allow, esc)
      [] elem.type = "partial" ->
            renderPartial(getPartials(elem.name, elem.indent), contextChain, allow)

\* what Render leaves
Rendered(c, allow, r) ==
    /\ context' = c
    /\ allowMissing' = allow
    /\ out' = r.out
    /\ rerr' = r.err

\* Template.Render(context...) with AllowMissingVariables = allow
FRender(contexts) ==
    /\ pc = "parsed"
    /\ \E c \in contexts, allow \in BOOLEAN :
           Rendered(c, allow, renderList(elems, c, allow, escape))
    /\ pc' = "rendered"
    /\ UNCHANGED parseVars
    /\ UNCHANGED <<escape, layout, renders>>

\* the key of the extra context of FRenderInLayout
Content == <<"c", "o", "n", "t", "e", "n", "t">>

\* an extra context put outermost, behind the contexts of the caller
allContextOutermost(content, c) == c \o <<VMap(<<Content>>, <<VString(content)>>)>>

\* allContext: map[string]string{"content": content} before the contexts of
\* the caller
allContext(content, c) == <<VMap(<<Content>>, <<VString(content)>>)>> \o c

\* FRenderInLayout after tmpl.Render: its error is returned, else the layout is
\* rendered, with its own escape function, against allContext
layoutRendered(l, c, allow, main) ==
    IF main.err # NoError THEN [out |-> <<>>, err |-> main.err]
    ELSE renderList(l.elems, allContext(main.out, c), allow, HTMLEscape)

\* what FRenderInLayout leaves
LaidOut(text, c, allow, r) ==
    /\ layout' = text
    /\ context' = c
    /\ allowMissing' = allow
    /\ out' = r.out
    /\ rerr' = r.err

\* Template.FRenderInLayout(out, layout, context...) with a layout compiled by
\* ParseString and AllowMissingVariables = allow
FRenderInLayout(layouts, contexts) ==
    /\ pc = "parsed"
    /\ \E text \in layouts, c \in contexts, allow \in BOOLEAN :
           LaidOut(text, c, allow,
                   layoutRendered(ParseString(text), c, allow,
                                  renderList(elems, c, allow, escape)))
    /\ pc' = "laidout"
    /\ UNCHANGED parseVars
    /\ UNCHANGED <<escape, renders>>

\* Template.Escape(fn)
Escape(fns) ==
    /\ pc = "parsed"
    /\ escape = HTMLEscape
    /\ \E fn \in fns \ {HTMLEscape} : escape' = fn
    /\ UNCHANGED <<pc, context, allowMissing, out, rerr, layout, renders>>
    /\ UNCHANGED parseVars

-----------------------------------------------------------------------------
(* Renders of one template by several goroutines.  A render is the loops of   *)
(* renderTemplate and renderSection taken one element at a time: frames holds *)
(* what is left of each loop entered, innermost first, each with the context  *)
(* chain it renders against.  Sections here are not lambdas and the template  *)
(* has no partial tags.                                                       *)

\* the element wrote text and the render goes on
written(r, rest, text) == [r EXCEPT !.frames = rest, !.out = r.out \o text]

\* the element returned an error: every loop returns it
aborted(r, err) == [r EXCEPT !.frames = <<>>, !.err = err]

\* a renderSection that writes the context into slot 0 of the chain it was
\* given
sectionFramesInPlace(els, contexts, contextChain) ==
    [i \in 1 .. Len(contexts) |-> frame(els, <<contexts[i]>> \o Tail(contextChain))]

\* chain2 := make([]interface{}, len(contextChain)+1); copy(chain2[1:],
\* contextChain); and for each context chain2[0] = ctx and the loop over the
\* elements of the section
sectionFrames(els, contexts, contextChain) ==
    [i \in 1 .. Len(contexts) |-> frame(els, <<contexts[i]>> \o contextChain)]

\* the frames once the element at hand is done
restFrames(frames) == <<frame(Tail(Head(frames).els), Head(frames).chain)>> \o Tail(frames)

\* case *varElement of renderElement after its lookup
stepVar(r, elem, esc, res) ==
    IF res.err # NoError THEN aborted(r, res.err)
    ELSE written(r, restFrames(r.frames),
                 IF res.v.kind = "invalid" THEN <<>>
                 ELSE varText(esc, elem.raw, Sprint(res.v)))

\* renderSection once the value is known to be empty or not
stepSectionBody(r, rest, section, contextChain, value, empty) ==
    IF (empty /\ ~section.inverted) \/ (~empty /\ section.inverted)
    THEN written(r, rest, <<>>)
    ELSE written(r, sectionFrames(section.elems,
                                  IF section.inverted THEN invertedContexts(contextChain)
                                  ELSE sectionContexts(value),
                                  contextChain) \o rest,
                 <<>>)

\* renderSection after its lookup
stepSection(r, section, contextChain, res) ==
    IF res.err # NoError THEN aborted(r, res.err)
    ELSE IF contextChain = <<>> THEN aborted(r, Panic)
    ELSE stepSectionBody(r, restFrames(r.frames), section, contextChain, res.v,
                         isEmpty(res.v))

\* renderElement
stepElement(r, elem, contextChain, allow, esc) ==
    CASE elem.type = "text" -> written(r, restFrames(r.frames), elem.text)
      [] elem.type = "var" ->
            stepVar(r, elem, esc, lookupAllowMissing(contextChain, elem.name, allow))
      [] OTHER ->
            stepSection(r, elem, contextChain,
                        lookupAllowMissing(contextChain, elem.name, TRUE))

\* one turn of the innermost loop: its next element, or its end
stepFrame(r, f, allow, esc) ==
    IF f.els = <<>> THEN [r EXCEPT !.frames = Tail(r.frames)]
    ELSE stepElement(r, Head(f.els), f.chain, allow, esc)

\* FRender returns when no loop is left
returned(r) == IF r.frames = <<>> THEN [r EXCEPT !.state = "done"] ELSE r

\* goroutine i calls Template.FRender(out, c...) for a c of contexts
StartRender(contexts, i) ==
    /\ pc = "parsed"
    /\ renders[i].state = "idle"
    /\ \E c \in contexts :
           renders' = [renders EXCEPT ![i] = [state |-> "running", ctx |-> c,
                                              frames |-> <<frame(elems, c)>>,
                                              out |-> <<>>, err |-> NoError]]
    /\ UNCHANGED <<pc, context, allowMissing, out, rerr, escape, layout>>
    /\ UNCHANGED parseVars

\* goroutine i renders its next element
RenderStep(i) ==
    /\ pc = "parsed"
    /\ renders[i].state = "running"
    /\ renders' = [renders EXCEPT ![i] = returned(stepFrame(renders[i], Head(renders[i].frames),
                                                            allowMissing, escape))]
    /\ UNCHANGED <<pc, context, allowMissing, out, rerr, escape, layout>>
    /\ UNCHANGED parseVars

\* AllowMissingVariables = false, set before any render
DisallowMissing ==
    /\ pc = "parsed"
    /\ allowMissing
    /\ \A i \in Goroutines : renders[i].state = "idle"
    /\ allowMissing' = FALSE
    /\ UNCHANGED <<pc, context, out, rerr, escape, layout, renders>>
    /\ UNCHANGED parseVars

-----------------------------------------------------------------------------
(* Inputs *)

\* the most tokens a generated template is made of
MaxToks == 2

\* the most elements of a generated sequence value
MaxItems == 3

OpenSec(name) == <<"{", "{", "#">> \o name \o <<"}", "}">>
OpenInv(name) == <<"{", "{", "^">> \o name \o <<"}", "}">>
CloseSec(name) == <<"{", "{", "/">> \o name \o <<"}", "}">>
VarTag(name) == <<"{", "{">> \o name \o <<"}", "}">>

X == <<"x">>
Y == <<"y">>

\* the pieces templates are made of: delimiters, whole tags of every kind, text,
\* blanks and line terminators
Tokens ==
    { <<"{", "{">>, <<"}", "}">>, X, <<" ">>, <<"\n">>,
      OpenSec(X), CloseSec(X), OpenInv(Y), CloseSec(Y),
      VarTag(<<"!", "c">>), VarTag(<<">", "x">>), VarTag(<<"&", "x">>),
      VarTag(<<"{", "x", "}">>), VarTag(<<"=", "|", " ", "|", "=">>) }

\* the sequences of at most n tokens
TokenSeqs(n) == UNION {[1 .. k -> Tokens] : k \in 0 .. n}

\* tags whose trimmed body is one sigil character
SigilTags ==
    { VarTag(<<"#">>), VarTag(<<"/">>), VarTag(<<">">>), VarTag(<<"&">>), VarTag(<<"=">>),
      VarTag(<<"!">>), VarTag(<<" ", "=", " ">>), VarTag(<<"^">>) }

\* one tag of every kind
LineTags ==
    SigilTags \cup
    { OpenSec(X), OpenInv(Y), CloseSec(X), VarTag(<<"!", "c">>), VarTag(<<">", "x">>),
      VarTag(<<"=", "|", " ", "|", "=">>), VarTag(X), VarTag(<<"&", "x">>),
      VarTag(<<"{", "x", "}">>), VarTag(<<"!", "\n", "c">>),
      VarTag(<<"=", "|", "=">>), VarTag(<<"=", "a", " ", "b", " ", "c", "=">>),
      VarTag(<<"=", "|", " ", "|">>) }

\* a tag on a line of its own or not: after nothing or a first line, behind
\* blanks or text, before blanks, text, a line terminator or the end of the text
Lines ==
    { a \o pre \o tag \o post \o eol \o b :
        a \in {<<>>, <<"A", "\n">>},
        pre \in {<<>>, <<" ", "\t">>, <<"x", " ">>},
        tag \in LineTags,
        post \in {<<>>, <<" ">>, <<"\t", "x">>, <<"\r">>},
        eol \in {<<>>, <<"\n">>, <<"\r", "\n">>},
        b \in {<<>>, <<"B">>} }

\* templates of the documentation, and sections whose tags stand alone
Examples ==
    { <<"A", "\n">> \o OpenSec(X) \o <<"\n">> \o CloseSec(X) \o <<"\n", "B", "\n">>,
      <<" ">> \o OpenSec(X) \o <<"\t", "\n">> \o VarTag(<<".">>) \o <<",">>
          \o CloseSec(X) \o <<"\r", "\n">>,
      OpenSec(X) \o <<"\n">> \o OpenInv(Y) \o <<"\n", "\n">>,
      <<"\n">> \o VarTag(<<"=", "|", " ", "|", "=">>) \o <<"\n", "x", "|", "\n", "x">>,
      VarTag(<<"=", "|", " ", "|", "=">>) \o <<"|", "#", "x", "|", "\n", "|", "/", "y", "|">>,
      <<"x", "\n">> \o OpenSec(X) \o <<"\n", "{", "{", "\n", "x">>,
      OpenSec(X) \o OpenInv(Y) \o CloseSec(Y) \o CloseSec(X),
      OpenSec(X) \o CloseSec(X) \o <<"\n">> \o OpenInv(Y) \o CloseSec(X),
      OpenSec(<<>>) \o CloseSec(<<>>) }

Templates == {Concat(ts) : ts \in TokenSeqs(MaxToks)} \cup Lines \cup Examples

\* context lists for the templates above
SmallContexts ==
    { <<>>,
      <<VMap(<<X>>, <<VString(<<"a", "<">>)>>)>>,
      <<VMap(<<X, Y>>, <<VSlice(<<VInt(1), VInt(20)>>), VInt(0)>>)>> }

\* templates for the renderer: sections, inverted sections and variables
InvertedXY == OpenInv(X) \o <<"Y">> \o CloseSec(X)
SectionXY == OpenSec(X) \o <<"Y">> \o CloseSec(X)
EachX == OpenSec(X) \o VarTag(<<".">>) \o <<",">> \o CloseSec(X)
EachXWithY == OpenSec(X) \o VarTag(<<".">>) \o VarTag(Y) \o <<",">> \o CloseSec(X)
VariableX == <<"a">> \o VarTag(X) \o <<"b">>
DotXY == VarTag(<<"x", ".", "y">>)

\* names of methods before and after Lookup in the order of names
Age == <<"A", "g", "e">>
Name == <<"N", "a", "m", "e">>

\* literal expressions of every form: quoted strings, integers in base ten and
\* eight, floats with and without a point, a boolean, an imaginary number
LiteralNames ==
    { <<"'", "a", "'">>, <<"\"", "b", "<", "\"">>, <<"'", "a", ".", "b", "'">>, <<"7">>,
      <<"-", "3">>, <<"0", "1", "7">>, <<"0", "8">>, <<"1", ".", "5">>,
      <<"t", "r", "u", "e">>, <<"2", "i">> }

\* index paths: into x at a position no sequence of the model has, at its
\* first position, at the keys y and k; a bracket without a left-hand value
XNine == <<"x", "[", "9", "]">>
XZero == <<"x", "[", "0", "]">>
XKeyY == <<"x", "[", "'", "y", "'", "]">>
XKeyK == <<"x", "[", "'", "k", "'", "]">>
IndexNames == {XNine, XZero, XKeyY, XKeyK, <<"[", "0", "]">>}

SectionXNine == OpenSec(XNine) \o <<"Y">> \o CloseSec(XNine)

RenderTemplates ==
    {VarTag(name) : name \in LiteralNames \cup IndexNames} \cup {SectionXNine} \cup
    { InvertedXY, SectionXY, EachX, EachXWithY, VariableX,
      OpenSec(Y) \o OpenInv(X) \o <<"Y">> \o CloseSec(X) \o CloseSec(Y),
      VarTag(<<"{", "x", "}">>), DotXY, VarTag(Age), VarTag(Name), VarTag(<<".">>),
      VarTag(X) }

Scalars == {VInt(1), VInt(2), VInt(3)}

\* the sequences of at most n of the scalars
ItemSeqs(n) == UNION {[1 .. k -> Scalars] : k \in 0 .. n}

\* values of every kind: null, strings, scalars, sequences, mappings, records
Values ==
    { VNil, VString(<<>>), VString(<<" ">>), VString(<<"a", "<">>), VInt(0), VInt(7),
      VBool(FALSE), VBool(TRUE), VNilSlice, VNilMap, VMap(<<>>, <<>>),
      VMap(<<Y>>, <<VInt(0)>>), VStruct(<<Y>>, <<VInt(0)>>),
      VStruct(<<Y>>, <<VString(<<"b">>)>>),
      VSlice(<<VMap(<<Y>>, <<VInt(2)>>), VNil>>) }
    \cup {VSlice(items) : items \in ItemSeqs(MaxItems)}

\* methods without parameters, and Lookup methods that return the name they
\* are given, that fail, and that have no parameter
GetAge == Method(Age, 1, 1, "return", VInt(40))
GetName == Method(Name, 1, 1, "return", VString(<<"n">>))
LookupEcho == Method(LookupName, 2, 2, "echo", Invalid)
LookupFail == Method(LookupName, 2, 2, "fail", Invalid)
LookupGetter == Method(LookupName, 1, 1, "return", VInt(9))

\* records with a field x and with methods, in the order of their names
Objects ==
    {VObject(ms, <<X>>, <<VInt(6)>>) :
        ms \in { <<LookupEcho>>, <<LookupFail>>, <<GetAge, LookupEcho, GetName>>,
                 <<GetAge, LookupFail, GetName>>, <<GetAge, GetName>>,
                 <<GetAge, LookupGetter, GetName>> }}

\* context lists: x bound to a value of every kind in a mapping or a record,
\* x bound nowhere, x bound beneath another context, and contexts of other kinds
ValueContexts ==
    {<<VMap(<<X>>, <<v>>)>> : v \in Values}
    \cup {<<VStruct(<<X>>, <<v>>)>> : v \in Values}
    \cup {<<VMap(<<Y>>, <<VInt(5)>>), VMap(<<X>>, <<v>>)>> : v \in Values}
    \cup { <<>>, <<VMap(<<>>, <<>>)>>, <<VMap(<<Y>>, <<VInt(5)>>)>>,
           <<VStruct(<<Y>>, <<VInt(5)>>)>>, <<VInt(3)>>, <<VString(<<"s">>)>>,
           <<VSlice(<<VInt(1)>>)>>, <<VMap(<<>>, <<>>), VSlice(<<>>)>>,
           <<VMap(<<Y>>, <<VSlice(<<VInt(1), VInt(2)>>)>>)>>,
           <<VInt(3), VMap(<<>>, <<>>), VStruct(<<Y>>, <<VInt(5)>>)>>,
           <<VMap(<<X>>, <<VInt(1)>>), VMap(<<X>>, <<VInt(2)>>)>>,
           <<VInt(3), VNil, VStruct(<<Y>>, <<VInt(5)>>), VMap(<<X>>, <<VInt(7)>>)>>,
           <<VSlice(<<VInt(1)>>), VMap(<<X>>, <<VInt(7)>>)>>,
           <<VMap(<<X>>, <<VMap(<<>>, <<>>)>>), VMap(<<Y>>, <<VInt(5)>>)>> }
    \cup {<<o>> : o \in Objects}
    \cup {<<o, VMap(<<Age, Name, X>>, <<VInt(1), VInt(2), VInt(3)>>)>> : o \in Objects}

\* the most pieces the body of a generated lambda section is made of
MaxPieces == 2

\* the pieces section bodies are made of: text, a blank, a line terminator and
\* tags of every kind
Pieces ==
    { <<"a">>, <<" ">>, <<"\n">>, VarTag(Y), VarTag(<<"&", "y">>), VarTag(<<"{", "y", "}">>),
      VarTag(<<"!", "c">>), VarTag(<<">", "p">>), OpenSec(Y), OpenInv(Y), CloseSec(Y),
      VarTag(<<"=", "|", " ", "|", "=">>), <<"|", "y", "|">> }

\* the sequences of at most n pieces
PieceSeqs(n) == UNION {[1 .. k -> Pieces] : k \in 0 .. n}

\* section bodies: generated ones, and ones with a comment before a section
\* tag that ends its line, with delimiters changed and changed back, and with
\* text that holds the default delimiters while others are in force
Bodies ==
    {Concat(ps) : ps \in PieceSeqs(MaxPieces)}
    \cup { <<"\n">> \o VarTag(<<"!", "c">>) \o OpenSec(Y) \o <<"\n", "A">> \o CloseSec(Y),
           VarTag(<<"=", "|", " ", "|", "=">>) \o <<"|", "y", "|", "|", "=", "{", "{", " ",
                                                     "}", "}", "=", "|">>,
           VarTag(<<"=", "|", " ", "|", "=">>) \o <<"{", "{", "y", "}", "}", "|", "=", "{",
                                                     "{", " ", "}", "}", "=", "|">>,
           OpenSec(Y) \o VarTag(<<".">>) \o VarTag(X) \o CloseSec(Y) }

\* a section named x in a section named y, and one between two texts
NestedXInY ==
    OpenSec(Y) \o OpenSec(X) \o VarTag(<<".">>) \o <<",">> \o CloseSec(X) \o CloseSec(Y)
SectionXBetween == <<"A">> \o OpenSec(X) \o VarTag(Y) \o CloseSec(X) \o <<"B">>

\* a section named x around each body, and the two above
LambdaTemplates ==
    {OpenSec(X) \o body \o CloseSec(X) : body \in Bodies}
    \cup {NestedXInY, SectionXBetween}

Markup == VString(<<"<", "b", ">">>)

\* lambdas of every behaviour, one that is no LambdaFunc, and values that are
\* no lambda
Lambdas ==
    { VFunc(Echo, <<>>, TRUE), VFunc(Rerender, <<>>, TRUE),
      VFunc(RenderOwn, VarTag(Y), TRUE),
      VFunc(RenderOwn, <<"{", "{">>, TRUE), VFunc(RenderOwn, VarTag(<<"z">>), TRUE),
      VFunc(ReturnOwn, <<"<">> \o VarTag(Y), TRUE),
      VFunc(FailOwn, <<>>, TRUE), VFunc(Echo, <<>>, FALSE) }

\* context lists: x bound to a lambda beside y, above y, and beneath a context
\* that has y; y bound to a sequence; x bound to no lambda
LambdaContexts ==
    {<<VMap(<<X, Y>>, <<f, Markup>>)>> : f \in Lambdas}
    \cup {<<VMap(<<Y>>, <<VString(<<"o">>)>>), VMap(<<X>>, <<f>>)>> : f \in Lambdas}
    \cup {<<VMap(<<X, Y>>, <<f, VSlice(<<VInt(1), VInt(2)>>)>>)>> : f \in Lambdas}
    \cup { <<VMap(<<X, Y>>, <<VBool(TRUE), Markup>>)>>,
           <<VMap(<<Y>>, <<Markup>>)>> }

\* main templates: text, variables, a section, and the key of the layout
MainTemplates ==
    { <<"M">>, VariableX, VarTag(<<"{", "x", "}">>), EachX, VarTag(Content),
      <<"<">> \o VarTag(Y), <<" ">>, <<>> }

\* layouts: the content raw and escaped, beside a variable of the caller, as a
\* section, and not at all
Layouts ==
    { <<"[">> \o VarTag(<<"{">> \o Content \o <<"}">>) \o <<"]">>,
      VarTag(Content) \o <<"|">> \o VarTag(X),
      VarTag(X) \o <<"|">> \o VarTag(<<"&">> \o Content),
      OpenSec(Content) \o VarTag(X) \o CloseSec(Content),
      VarTag(Y) \o <<"L">>,
      <<"L">> }

\* context lists of a caller: none, x bound once and twice, a key named
\* content, and y bound to markup
LayoutContexts ==
    { <<>>,
      <<VMap(<<X>>, <<VString(<<"a", "<">>)>>)>>,
      <<VMap(<<X>>, <<VInt(1)>>), VMap(<<X, Y>>, <<VInt(2), Markup>>)>>,
      <<VMap(<<Content, X>>, <<VString(<<"c">>), VSlice(<<VInt(1), VInt(2)>>)>>)>>,
      <<VMap(<<Y>>, <<Markup>>), VMap(<<Content>>, <<VInt(7)>>)>> }

\* context lists of the goroutines: x bound to sequences, to a mapping, to
\* nothing, y bound beside x and beneath it
ConcurrentContexts ==
    { <<>>,
      <<VMap(<<X, Y>>, <<VSlice(<<VInt(1), VInt(2)>>), Markup>>)>>,
      <<VMap(<<X>>, <<VSlice(<<VMap(<<Y>>, <<VInt(2)>>), VNil>>)>>), VMap(<<Y>>, <<VInt(5)>>)>>,
      <<VMap(<<Y>>, <<VMap(<<X>>, <<VInt(0)>>)>>)>>,
      <<VMap(<<X>>, <<VString(<<"a", "<">>)>>)>> }

-----------------------------------------------------------------------------
(* The specifications *)

\* the Template that ParseStringPartialsRaw builds before it calls parse
NewTemplate(text, raw) ==
    /\ data = text
    /\ otag = <<"{", "{">>
    /\ ctag = <<"}", "}">>
    /\ p = 0
    /\ curline = 1
    /\ elems = <<>>
    /\ forceRaw = raw
    /\ stack = <<>>
    /\ pc = "parsing"
    /\ ret = [tmpl |-> FALSE, err |-> NoError]
    /\ last = NoRead
    /\ openAt = <<>>
    /\ closes = <<>>
    /\ context = <<>>
    /\ allowMissing = TRUE
    /\ out = <<>>
    /\ rerr = NoError
    /\ escape = HTMLEscape
    /\ layout = <<>>
    /\ renders = [i \in Goroutines |-> Idle]

\* ParseString of a template made of tokens
Init == \E text \in Templates : NewTemplate(text, FALSE)

Parse ==
    \/ ParseEnd
    \/ ParseSectionEnd
    \/ ParseTagError
    \/ ParseComment
    \/ ParseOpenSection
    \/ ParseUnmatchedClose
    \/ ParseSectionClose
    \/ ParsePartial
    \/ ParseSetDelims
    \/ ParseRawTag
    \/ ParseAmpTag
    \/ ParseVariable

Render == FRender(SmallContexts)

Next == Parse \/ Render

Spec == Init /\ [][Next]_vars

\* ParseStringRaw of a renderer template, rendered against values of every kind
InitRender == \E text \in RenderTemplates, raw \in BOOLEAN : NewTemplate(text, raw)

RenderValues == FRender(ValueContexts)

NextRender ==
    \/ ParseEnd
    \/ ParseOpenSection
    \/ ParseSectionClose
    \/ ParseRawTag
    \/ ParseVariable
    \/ RenderValues

SpecRender == InitRender /\ [][NextRender]_vars

\* ParseString of a section around a body, an escape function set or not, and
\* the template rendered against contexts that bind the section to a lambda
InitLambda == \E text \in LambdaTemplates : NewTemplate(text, FALSE)

SetEscape == Escape(EscapeFuncs)

RenderLambdas == FRender(LambdaContexts)

NextLambda ==
    \/ ParseEnd
    \/ ParseSectionEnd
    \/ ParseTagError
    \/ ParseComment
    \/ ParseOpenSection
    \/ ParseSectionClose
    \/ ParsePartial
    \/ ParseSetDelims
    \/ ParseRawTag
    \/ ParseAmpTag
    \/ ParseVariable
    \/ SetEscape
    \/ RenderLambdas

SpecLambda == InitLambda /\ [][NextLambda]_vars

\* ParseString of a main template, rendered in a layout
InitLayout == \E text \in MainTemplates : NewTemplate(text, FALSE)

RenderInLayouts == FRenderInLayout(Layouts, LayoutContexts)

NextLayout ==
    \/ ParseEnd
    \/ ParseOpenSection
    \/ ParseSectionClose
    \/ ParseRawTag
    \/ ParseVariable
    \/ RenderInLayouts

SpecLayout == InitLayout /\ [][NextLayout]_vars

\* ParseString of a renderer template, rendered by two goroutines at once
InitConcurrent == \E text \in RenderTemplates : NewTemplate(text, FALSE)

StartRenders == \E i \in Goroutines : StartRender(ConcurrentContexts, i)

RenderSteps == \E i \in Goroutines : RenderStep(i)

NextConcurrent ==
    \/ ParseEnd
    \/ ParseOpenSection
    \/ ParseSectionClose
    \/ ParseRawTag
    \/ ParseVariable
    \/ DisallowMissing
    \/ StartRenders
    \/ RenderSteps

SpecConcurrent == InitConcurrent /\ [][NextConcurrent]_vars

-----------------------------------------------------------------------------
(* Properties *)

OpenDelim == <<"{", "{">>

\* the line, counted from 1, on which position i of the text lies
LineOf(d, i) == 1 + CountNL(Slice(d, 0, i))

\* a tag was read by the latest iteration
LastIsTag == last.tag # <<>>

\* C1: a template text without the open delimiter compiles, and its rendering
\* against any context list writes the text itself and returns no error
C1_NoTagIdentity ==
    firstMatch(data, 0, OpenDelim) < 0 =>
        /\ pc \in {"parsing", "parsed", "rendered"}
        /\ pc = "parsing" => (stack = <<>> /\ Iteration.eof)
        /\ pc # "parsing" => ret = [tmpl |-> TRUE, err |-> NoError]
        /\ pc = "rendered" => (out = data /\ rerr = NoError)

C1_Witness ==
    /\ pc = "rendered"
    /\ firstMatch(data, 0, OpenDelim) < 0
    /\ Len(data) >= 3
    /\ context # <<>>
    /\ out = data

\* the start of the line of position i when only spaces and tabs lie between,
\* else -1
RECURSIVE LineStartIfBlank(_, _)
LineStartIfBlank(d, i) ==
    IF i = 0 THEN 0
    ELSE IF At(d, i - 1) = "\n" THEN i
    ELSE IF At(d, i - 1) \in {" ", "\t"} THEN LineStartIfBlank(d, i - 1)
    ELSE 0 - 1

\* the position after the newline that follows position i, or the end of the
\* text, when only spaces and tabs lie between, else -1
RECURSIVE LineEndIfBlank(_, _)
LineEndIfBlank(d, i) ==
    IF i >= Len(d) THEN Len(d)
    ELSE IF At(d, i) = "\n" THEN i + 1
    ELSE IF At(d, i) \in {" ", "\t"} THEN LineEndIfBlank(d, i + 1)
    ELSE 0 - 1

\* the tag read last has a sigil of #^/<>=! and stands alone on its line
StandsAlone(from, to) ==
    /\ LastIsTag
    /\ last.tag[1] \in SkipWhitespaceTagTypes
    /\ from >= 0
    /\ to >= 0

\* the iteration kept the text up to the start of the tag's line and moved the
\* cursor past the end of the line
LineElided(from, to) ==
    /\ last.emitted = Slice(data, last.from, from)
    /\ last.after = to

StandaloneExample ==
    <<"A", "\n">> \o OpenSec(X) \o <<"\n">> \o CloseSec(X) \o <<"\n", "B", "\n">>

\* C2: a tag with a sigil of #^/<>=! that has only spaces or tabs before it
\* back to the previous newline or the start of the text, and only spaces or
\* tabs after it up to the next newline or the end of the text, leaves no text
\* for its line's indentation, trailing blanks and line terminator; the
\* template A\n{{#x}}\n{{/x}}\nB\n with x truthy renders A\nB\n
C2_StandaloneElided ==
    /\ StandsAlone(LineStartIfBlank(data, last.start), LineEndIfBlank(data, last.end))
           => LineElided(LineStartIfBlank(data, last.start), LineEndIfBlank(data, last.end))
    /\ (pc = "rendered" /\ data = StandaloneExample /\ context # <<>>)
           => (out = <<"A", "\n", "B", "\n">> /\ rerr = NoError)

\* a character other than white space lies before position i on its line
RECURSIVE NonWsBefore(_, _)
NonWsBefore(d, i) ==
    IF i = 0 \/ At(d, i - 1) = "\n" THEN FALSE
    ELSE IF ~IsSpace(At(d, i - 1)) THEN TRUE
    ELSE NonWsBefore(d, i - 1)

\* a character other than white space lies at or after position i on its line
RECURSIVE NonWsAfter(_, _)
NonWsAfter(d, i) ==
    IF i >= Len(d) \/ At(d, i) = "\n" THEN FALSE
    ELSE IF ~IsSpace(At(d, i)) THEN TRUE
    ELSE NonWsAfter(d, i + 1)

Comment == VarTag(<<"!", "c">>)

\* the text holds one tag, the comment at position s
OneCommentAt(s) ==
    /\ s >= 0
    /\ MatchAt(data, s, Comment)
    /\ firstMatch(data, s + Len(Comment), OpenDelim) < 0

\* the rendering of a text whose one tag is a comment that shares its line
SharedCommentRendered(s) ==
    (OneCommentAt(s) /\ (NonWsBefore(data, s) \/ NonWsAfter(data, s + Len(Comment))))
        => /\ out = Slice(data, 0, s) \o Slice(data, s + Len(Comment), Len(data))
           /\ rerr = NoError

\* C3: a tag of any sigil that shares its line with a character other than
\* white space, before or after it, is not standalone: the parser consumes the
\* tag and no more, and the white space and line terminator around it are kept
\* as they are and rendered
C3_SharedLineVerbatim ==
    /\ (LastIsTag /\ (NonWsBefore(data, last.start) \/ NonWsAfter(data, last.end)))
           => /\ last.after = last.end
              /\ last.emitted = Slice(data, last.from, last.start)
    /\ pc = "rendered" => SharedCommentRendered(firstMatch(data, 0, OpenDelim))

C3_Witness ==
    /\ pc = "rendered"
    /\ last.tag = <<"!", "c">>
    /\ NonWsBefore(data, last.start)
    /\ last.end < Len(data)
    /\ At(data, last.end) = "\n"
    /\ last.after = last.end
    /\ out = Slice(data, 0, last.start) \o Slice(data, last.end, Len(data))

\* the iteration that starts here meets an open delimiter that no close
\* delimiter follows, and readTag reports it on the open delimiter's line
UnmatchedReported(it) ==
    (~it.eof /\ firstMatch(data, it.start + Len(otag), ctag) < 0)
        => it.err = newError(LineOf(data, it.start), ErrUnmatchedOpenTag)

\* C8: an open delimiter that no close delimiter follows makes the compilation
\* return a ParseError of code unmatched_open_tag whose line is the line of the
\* open delimiter, counted from 1, also when newlines follow the delimiter; no
\* Template is returned
C8_UnmatchedOpenLine ==
    /\ pc = "parsing" => UnmatchedReported(Iteration)
    /\ (pc = "error" /\ ret.err.code = ErrUnmatchedOpenTag)
           => /\ ~LastIsTag
              /\ ret = [tmpl |-> FALSE,
                        err |-> newError(LineOf(data, last.start), ErrUnmatchedOpenTag)]

C8_Witness ==
    /\ pc = "error"
    /\ ret.err.code = ErrUnmatchedOpenTag
    /\ ret.err.line = 3
    /\ CountNL(Slice(data, last.start, Len(data))) >= 1
    /\ ~ret.tmpl

\* C9: a section opened by {{#name}} or {{^name}} and not closed before the end
\* of the text makes the compilation fail with a ParseError of code
\* section_no_closing_tag whose reason is the section's name and whose line is
\* the line of the opening tag, wherever the opening tag stands
C9_NoClosingTagLine ==
    /\ pc \in {"parsed", "rendered"} => stack = <<>>
    /\ (pc = "error" /\ ret.err.code = ErrSectionNoClosingTag)
           => ret = [tmpl |-> FALSE,
                     err |-> newErrorWithReason(LineOf(data, openAt[Len(openAt)]),
                                                ErrSectionNoClosingTag,
                                                stack[Len(stack)].name)]

\* the names of the sections of an element list, each after the sections it holds
RECURSIVE SectionNames(_)
SectionNames(es) ==
    IF es = <<>> THEN <<>>
    ELSE (IF Head(es).type = "section"
          THEN SectionNames(Head(es).elems) \o <<Head(es).name>>
          ELSE <<>>) \o SectionNames(Tail(es))

\* the names of the sections held by the sections still open
RECURSIVE StackNames(_)
StackNames(st) ==
    IF st = <<>> THEN <<>> ELSE SectionNames(Head(st).elems) \o StackNames(Tail(st))

\* every section of the tree was closed, in the order of closing, by a close
\* tag that names it
TreeClosedByName ==
    /\ SectionNames(elems) \o StackNames(stack) = [i \in 1 .. Len(closes) |-> closes[i].open]
    /\ \A i \in 1 .. Len(closes) : closes[i].close = closes[i].open

\* the latest iteration read a close tag
LastIsClose == LastIsTag /\ last.tag[1] = "/"

\* what became of the close tag read last, which names name
CloseOutcome(name) ==
    /\ last.depth = 0
           => (pc = "error" /\ ~ret.tmpl /\ ret.err.code = ErrUnmatchedCloseTag)
    /\ (last.depth > 0 /\ name # last.top)
           => /\ pc = "error"
              /\ ~ret.tmpl
              /\ ret.err.code = ErrInterleavedClosingTag
              /\ ret.err.reason = name
    /\ (last.depth > 0 /\ name = last.top /\ pc = "parsing")
           => /\ closes # <<>>
              /\ closes[Len(closes)] = [open |-> last.top, close |-> name]
              /\ Len(stack) = last.depth - 1

\* C10: a compilation succeeds only when section tags nest by name: every
\* section of the tree was closed by a close tag whose trimmed name is the
\* section's; a close tag that names another than the innermost open section
\* gives interleaved_closing_tag with that name, a close tag with no section
\* open gives unmatched_close_tag, and neither returns a tree
C10_NestedByName ==
    /\ TreeClosedByName
    /\ pc \in {"parsed", "rendered"} => (stack = <<>> /\ ret.tmpl)
    /\ LastIsClose => CloseOutcome(TrimSpace(Tail(last.tag)))
    /\ (pc = "error" /\ ret.err.code = ErrInterleavedClosingTag)
           => (LastIsClose /\ last.depth > 0 /\ ~ret.tmpl)
    /\ (pc = "error" /\ ret.err.code = ErrUnmatchedCloseTag)
           => (LastIsClose /\ last.depth = 0 /\ ~ret.tmpl)

C10_Witness ==
    /\ pc = "rendered"
    /\ Len(closes) = 2
    /\ closes[1].open # closes[2].open
    /\ SectionNames(elems) = <<Y, X>>

\* no value: what a name resolves to when nothing binds it
Missing == Invalid

\* no context of the list is a record with methods
NoMethods(c) == \A i \in 1 .. Len(c) : c[i].kind = "struct" => c[i].items = <<>>

\* a context list of mappings and records without methods
PlainChain(c) ==
    /\ c # <<>>
    /\ \A i \in 1 .. Len(c) : c[i].kind \in {"map", "struct"}
    /\ NoMethods(c)

\* the value of name in the first context of the list that binds it
RECURSIVE BoundIn(_, _)
BoundIn(c, name) ==
    IF c = <<>> THEN Missing
    ELSE IF Head(c).kind \in {"map", "struct"} /\ KeyIndex(Head(c), name) > 0
    THEN Head(c).vals[KeyIndex(Head(c), name)]
    ELSE BoundIn(Tail(c), name)

\* the zero value of a kind
RECURSIVE ZeroValue(_)
ZeroValue(v) ==
    \/ v.kind = "string" /\ v.str = <<>>
    \/ v.kind \in {"int", "bool"} /\ v.num = 0
    \/ v.kind \in {"nil", "slice", "map"} /\ v.isnil
    \/ v.kind = "struct" /\ \A i \in 1 .. Len(v.vals) : ZeroValue(v.vals[i])

\* Missing, null, the empty string, an empty sequence or a zero scalar
EmptyAsListed(v) ==
    \/ v = Missing
    \/ v.kind = "nil"
    \/ v.kind = "string" /\ v.str = <<>>
    \/ v.kind = "slice" /\ v.items = <<>>
    \/ v.kind \in {"int", "bool"} /\ v.num = 0

\* Missing, null, a string of white space only, an empty sequence or the zero
\* value of any other kind
EmptyAsTrimmedOrZero(v) ==
    \/ v = Missing
    \/ v.kind = "nil"
    \/ v.kind = "string" /\ TrimSpace(v.str) = <<>>
    \/ v.kind = "slice" /\ v.items = <<>>
    \/ v.kind \notin {"string", "slice"} /\ ZeroValue(v)

\* the render wrote Y when empty holds and nothing otherwise
WroteYWhen(empty) ==
    /\ out = IF empty THEN <<"Y">> ELSE <<>>
    /\ rerr = NoError

\* {{^x}}Y{{/x}} was rendered against mappings and records
InvertedRendered == pc = "rendered" /\ data = InvertedXY /\ PlainChain(context)

Shown(v) == varText(HTMLEscape, forceRaw, Sprint(v))

\* the value of y with the element as the innermost context above the list c
YAbove(item, c) == BoundIn(<<item>> \o c, Y)

\* the body {{.}}, written once for every element, in order
RECURSIVE EachShown(_)
EachShown(items) ==
    IF items = <<>> THEN <<>>
    ELSE Shown(Head(items)) \o <<",">> \o EachShown(Tail(items))

\* the body {{.}}{{y}}, written once for every element, in order, above c
RECURSIVE EachShownWithY(_, _)
EachShownWithY(items, c) ==
    IF items = <<>> THEN <<>>
    ELSE Shown(Head(items)) \o Shown(YAbove(Head(items), c)) \o <<",">>
             \o EachShownWithY(Tail(items), c)

\* x is bound to the sequence v, which is not empty
IteratedOver(v) == PlainChain(context) /\ v.kind = "slice" /\ v.items # <<>>

\* the renderings of a section over the elements of v
EachRendered(v) ==
    /\ (data = EachX /\ IteratedOver(v))
           => (out = EachShown(v.items) /\ rerr = NoError)
    /\ (data = EachXWithY /\ IteratedOver(v) /\ BoundIn(context, Y) # Missing)
           => (out = EachShownWithY(v.items, context) /\ rerr = NoError)

\* C5: a section that is not inverted and whose value is a sequence of n > 0
\* elements renders its body n times, in the order of the elements, each time
\* with the element as the innermost context above the unchanged context list,
\* and writes the renderings one after the other: {{#x}}{{.}},{{/x}} with
\* x = [1,2,3] gives 1,2,3,
C5_IterationInOrder == pc = "rendered" => EachRendered(BoundIn(context, X))

C5_Witness ==
    /\ pc = "rendered"
    /\ data = EachX
    /\ context = <<VMap(<<X>>, <<VSlice(<<VInt(1), VInt(2), VInt(3)>>)>>)>>
    /\ out = <<"1", ",", "2", ",", "3", ",">>
    /\ rerr = NoError

\* no mapping or record of the context list binds name, and none has methods
FoundNowhere(c, name) ==
    /\ \A i \in 1 .. Len(c) : ~(c[i].kind \in {"map", "struct"} /\ KeyIndex(c[i], name) > 0)
    /\ NoMethods(c)

\* C6: a variable tag whose name is found in no context writes nothing and
\* the render returns no error when AllowMissingVariables is true, and the
\* render returns a MissingVariableError with the variable's name when it is
\* false
C6_MissingVariablePolicy ==
    (pc = "rendered" /\ data = VariableX /\ FoundNowhere(context, X))
        => IF allowMissing
           THEN out = <<"a", "b">> /\ rerr = NoError
           ELSE rerr = newMissingVariableError(X)

\* C7: a section, inverted or not, whose name matches nothing in any context
\* never makes the render return an error, under either setting of
\* AllowMissingVariables and whatever the kinds of the contexts: the body of a
\* section is skipped and the body of an inverted section is rendered once
C7_MissingSectionEmpty ==
    (pc = "rendered" /\ data \in {SectionXY, InvertedXY} /\ context # <<>>
                     /\ FoundNowhere(context, X))
        => WroteYWhen(data = InvertedXY)

\* strings.Fields: the runs of characters other than white space, in order
RECURSIVE FieldsFrom(_, _)
FieldsFrom(s, word) ==
    IF s = <<>> THEN (IF word = <<>> THEN <<>> ELSE <<word>>)
    ELSE IF IsSpace(Head(s))
    THEN (IF word = <<>> THEN <<>> ELSE <<word>>) \o FieldsFrom(Tail(s), <<>>)
    ELSE FieldsFrom(Tail(s), Append(word, Head(s)))

Fields(s) == FieldsFrom(s, <<>>)

\* the latest iteration read a tag of sigil =
LastIsMeta == LastIsTag /\ last.tag[1] = "="

\* what became of the = tag read last, whose body between the sigil and a final
\* = holds the tokens: two tokens are the new delimiters, any other tag is an
\* invalid_meta_tag error that leaves the delimiters as they were
MetaOutcome(endsWithEq, tokens) ==
    IF endsWithEq /\ Len(tokens) = 2
    THEN /\ otag = tokens[1]
         /\ ctag = tokens[2]
         /\ ~(pc = "error" /\ ret.err.code = ErrInvalidMetaTag)
    ELSE /\ pc = "error"
         /\ ~ret.tmpl
         /\ ret.err.code = ErrInvalidMetaTag
         /\ otag = last.otag
         /\ ctag = last.ctag

\* C11: a tag {{=...=}} is accepted only if its body ends with = and holds
\* exactly two tokens separated by white space, which become the open and the
\* close delimiter; every other = tag (not ending with =, holding one token, or
\* three or more) makes the compilation fail with invalid_meta_tag and changes
\* no delimiter
C11_MetaTagTwoTokens ==
    LastIsMeta =>
        MetaOutcome(Len(last.tag) >= 2 /\ last.tag[Len(last.tag)] = "=",
                    Fields(SubSeq(last.tag, 2, Len(last.tag) - 1)))

\* the elements but the empty text elements
IsNonEmpty(e) == e # textElement(<<>>)
NonEmpty(els) == SelectSeq(els, IsNonEmpty)

\* the first of them
SectionX == NonEmpty(elems)[1]

\* the template is one section named x and nothing around it, compiled and
\* rendered
OneSectionX ==
    /\ pc = "rendered"
    /\ Len(NonEmpty(elems)) = 1
    /\ SectionX.type = "section"
    /\ SectionX.name = X
    /\ ~SectionX.inverted
    /\ SubSeq(data, 1, Len(OpenSec(X))) = OpenSec(X)

\* the text of the template between the two tags of that section
LambdaBody == SubSeq(data, Len(OpenSec(X)) + 1, Len(data) - Len(CloseSec(X)))

\* the section name resolves to the lambda fn
BoundTo(fn) == lookupAllowMissing(context, X, TRUE) = [v |-> fn, err |-> NoError]

\* C12: a lambda section hands its lambda exactly the source text between its
\* opening and closing tag, whatever the body holds, and the render does not
\* fail while that text is rebuilt.  The lambda here returns the text it was
\* given, so the output is that text.
C12_LambdaGetsSourceText ==
    (OneSectionX /\ BoundTo(VFunc(Echo, <<>>, TRUE))) =>
        (rerr = NoError /\ out = LambdaBody)

\* what the section writes when its lambda returns what the callback gave for
\* a text that compiled to t: the rendering of t against the context stack c,
\* or the error of the compilation or of the rendering as the lambda's error
CalledBackOf(r) ==
    IF r.err # NoError THEN [out |-> <<>>, err |-> LambdaError(X, r.err)] ELSE r
CalledBack(t, c) ==
    IF t.err # NoError THEN [out |-> <<>>, err |-> LambdaError(X, t.err)]
    ELSE CalledBackOf(renderList(t.elems, c, allowMissing, HTMLEscape))

\* the lambda of section x is called: the text of the section was rebuilt
LambdaCalled == getSectionText(SectionX.elems).err = NoError

\* the lambdas of the model that return what the callback gave for their text
OwnRenderers == {f \in Lambdas : f.keys = <<RenderOwn>>}

\* C13: the callback handed to a lambda compiles its text as a new template
\* and renders it against the context stack in effect at the section tag,
\* without the lambda pushed, and gives the string or the error; what the
\* lambda returns is written unescaped; an error from the lambda ends the
\* render with nothing more written
C13_CallbackInAmbientContext ==
    /\ (OneSectionX /\ LambdaCalled) =>
          /\ \A f \in OwnRenderers :
                 BoundTo(f) => [out |-> out, err |-> rerr] = CalledBack(ParseString(f.str), context)
          /\ BoundTo(VFunc(ReturnOwn, <<"<">> \o VarTag(Y), TRUE)) =>
                 (out = <<"<">> \o VarTag(Y) /\ rerr = NoError)
          /\ BoundTo(VFunc(FailOwn, <<>>, TRUE)) =>
                 (out = <<>> /\ rerr = LambdaError(X, LambdaFailure))
    /\ (pc = "rendered" /\ data = NestedXInY
            /\ context = <<VMap(<<X, Y>>, <<VFunc(Rerender, <<>>, TRUE),
                                            VSlice(<<VInt(1), VInt(2)>>)>>)>>) =>
          (out = <<"1", ",", "2", ",">> /\ rerr = NoError)
    /\ (pc = "rendered" /\ data = SectionXBetween) =>
          /\ BoundTo(VFunc(FailOwn, <<>>, TRUE)) =>
                 (out = <<"A">> /\ rerr = LambdaError(X, LambdaFailure))
          /\ (BoundTo(VFunc(ReturnOwn, <<"<">> \o VarTag(Y), TRUE))) =>
                 (out = <<"A", "<">> \o VarTag(Y) \o <<"B">> /\ rerr = NoError)

\* the callback found y in the context beneath the one that holds the lambda
C13_Witness ==
    /\ OneSectionX
    /\ LambdaCalled
    /\ Len(context) = 2
    /\ BoundTo(VFunc(RenderOwn, VarTag(Y), TRUE))
    /\ out = <<"o">>
    /\ rerr = NoError

\* the children of section x rendered as they were compiled
ChildrenRendered == renderList(SectionX.elems, context, allowMissing, HTMLEscape)

\* the render gave what r holds: the same output, and an error when r has one
SameAs(r) == out = r.out /\ (rerr = NoError <=> r.err = NoError)

\* C14: the children of a compiled section, written back with getSectionText
\* and compiled again, render to what the children themselves render to,
\* against the same context stack.  The lambda here returns what its callback
\* gives for the text it was handed, so the render holds the rendering of the
\* recompiled text.
C14_SectionTextRoundTrip ==
    (OneSectionX /\ escape = HTMLEscape /\ BoundTo(VFunc(Rerender, <<>>, TRUE))) =>
        SameAs(ChildrenRendered)

\* y resolves to the string v, and x to a value that has the body of section
\* x rendered: the boolean true, or a lambda returning what its callback gives
\* for the text of the section
YShownIn(v) ==
    /\ lookupAllowMissing(context, Y, TRUE) = [v |-> v, err |-> NoError]
    /\ BoundTo(VBool(TRUE)) \/ BoundTo(VFunc(Rerender, <<>>, TRUE))

\* C15: with an escape function fn set by Escape(fn) and no formatter, every
\* variable that is not raw is written as fn of the string form of its value,
\* those rendered through the callback of a lambda section included, and raw
\* variables are written without fn
C15_EscapeEverywhere ==
    (OneSectionX /\ escape # HTMLEscape /\ YShownIn(Markup)) =>
        /\ LambdaBody = VarTag(Y) => (out = escaped(escape, Markup.str) /\ rerr = NoError)
        /\ LambdaBody \in {VarTag(<<"&", "y">>), VarTag(<<"{", "y", "}">>)} =>
               (out = Markup.str /\ rerr = NoError)

\* the layouts that write the content raw, alone and behind x
RawContent == <<"[">> \o VarTag(<<"{">> \o Content \o <<"}">>) \o <<"]">>
XThenContent == VarTag(X) \o <<"|">> \o VarTag(<<"&">> \o Content)

\* the main template rendered alone against the contexts of the caller
MainRendered == renderList(elems, context, allowMissing, escape)

\* the layout rendered against the contexts cs
LayoutRendered(cs) == renderList(ParseString(layout).elems, cs, allowMissing, HTMLEscape)

\* FRenderInLayout left what follows from the rendering main of the main
\* template
LaidOutFrom(main) ==
    /\ main.err # NoError => (out = <<>> /\ rerr = main.err)
    /\ main.err = NoError =>
          /\ [out |-> out, err |-> rerr]
                = LayoutRendered(<<VMap(<<Content>>, <<VString(main.out)>>)>> \o context)
          /\ layout = RawContent => (out = <<"[">> \o main.out \o <<"]">> /\ rerr = NoError)
          /\ (layout = XThenContent /\ context # <<>> /\ KeyIndex(context[1], X) > 0) =>
                 /\ out = varText(HTMLEscape, FALSE, Sprint(context[1].vals[KeyIndex(context[1], X)]))
                             \o <<"|">> \o main.out
                 /\ rerr = NoError

\* C16: FRenderInLayout renders the main template first; when that fails it
\* returns the error and writes nothing, the layout not rendered; else it
\* renders the layout against a mapping of content to the main output, put
\* innermost, and then the contexts of the caller in their order, so that
\* content in the layout is the main output whatever the caller bound to it
C16_LayoutAfterMain == pc = "laidout" => LaidOutFrom(MainRendered)

\* the caller bound content too, and the layout wrote the main output
C16_Witness ==
    /\ pc = "laidout"
    /\ layout = RawContent
    /\ data = VariableX
    /\ context = <<VMap(<<Content, X>>, <<VString(<<"c">>), VSlice(<<VInt(1), VInt(2)>>)>>)>>
    /\ out = <<"[", "a", "[", "1", " ", "2", "]", "b", "]">>
    /\ rerr = NoError

\* the main template failed: nothing written
C16_WitnessFailed ==
    /\ pc = "laidout"
    /\ rerr # NoError
    /\ MainRendered.err = rerr
    /\ out = <<>>

\* what the render r gives when it runs alone
RenderedAlone(r) == renderList(elems, r.ctx, allowMissing, escape)

\* every render that returned gave the output and error it gives alone
SameAsAlone ==
    \A i \in Goroutines :
        renders[i].state = "done" =>
            [out |-> renders[i].out, err |-> renders[i].err] = RenderedAlone(renders[i])

\* chain ends with the context list ctx
EndsWith(chain, ctx) ==
    /\ Len(chain) >= Len(ctx)
    /\ SubSeq(chain, Len(chain) - Len(ctx) + 1, Len(chain)) = ctx

\* every loop of a render has the context list of its caller beneath the
\* contexts of the sections entered, one per section
StacksGrow ==
    \A i \in Goroutines :
        \A k \in 1 .. Len(renders[i].frames) :
            EndsWith(renders[i].frames[k].chain, renders[i].ctx)

\* a step taken while a render runs leaves the template and the context list
\* of every render as they were
TemplateKept ==
    (\E i \in Goroutines : renders[i].state = "running") =>
        /\ UNCHANGED <<data, otag, ctag, p, curline, elems, forceRaw, escape>>
        /\ \A i \in Goroutines :
               renders[i].state # "idle" => renders'[i].ctx = renders[i].ctx

\* C17: a render changes neither the compiled template nor the context list
\* of its caller, a section renders against a new stack one longer than the
\* enclosing one, and so renders of one template by goroutines that
\* interleave give each the output and error of the render alone
C17_RendersIndependent == [](SameAsAlone /\ StacksGrow) /\ [][TemplateKept]_vars

\* one goroutine returned what it gives alone while the other, with another
\* context list, is inside a section
C17_Witness ==
    /\ data = EachXWithY
    /\ renders[1].state = "done"
    /\ renders[1].out = <<"1", "&", "l", "t", ";", "b", "&", "g", "t", ";", ",",
                          "2", "&", "l", "t", ";", "b", "&", "g", "t", ";", ",">>
    /\ renders[2].state = "running"
    /\ renders[2].ctx # renders[1].ctx
    /\ Len(renders[2].frames) >= 2
    /\ renders[2].out # <<>>

\* C18: a name is looked up in the contexts innermost first and the first
\* context that has a match gives the value; a context without a match, be it
\* a mapping or record without the name, a sequence given a name that is no
\* length and no index, or a scalar, is passed over; the variable is missing
\* only when no context has a match
C18_InnermostMatchWins ==
    (pc = "rendered" /\ data = VariableX /\ NoMethods(context)) =>
        IF FoundNowhere(context, X)
        THEN (rerr = NoError \/ rerr = newMissingVariableError(X))
        ELSE (out = <<"a">> \o Shown(BoundIn(context, X)) \o <<"b">> /\ rerr = NoError)

\* the value v binds the name
Binds(v, name) == v.kind \in {"map", "struct"} /\ KeyIndex(v, name) > 0

\* the variable x.y wrote what the value a of x gives for y alone
DotResolved(a) ==
    IF Binds(a, Y)
    THEN out = Shown(a.vals[KeyIndex(a, Y)]) /\ rerr = NoError
    ELSE IF allowMissing THEN out = <<>> /\ rerr = NoError
    ELSE rerr = newMissingVariableError(Y)

\* C19: for the path x.y, x is resolved against the context stack and y
\* against the value of x alone: a value of x without y gives a missing
\* variable error whatever the other contexts bind to y, and when x fails its
\* error is returned and y is not resolved
C19_DotPathAgainstValueAlone ==
    (pc = "rendered" /\ data = DotXY /\ NoMethods(context)) =>
        IF FoundNowhere(context, X)
        THEN out = <<>> /\ rerr \in {NoError, newMissingVariableError(X), NumError(X)}
        ELSE DotResolved(BoundIn(context, X))

\* the names asked for: a field, a method before Lookup and one after it in
\* the order of names, and the dot
AskedNames == {X, Age, Name, <<".">>}

\* the innermost context has a Lookup method with one argument and two
\* results
HasLookup(m) ==
    /\ context # <<>>
    /\ context[1].kind = "struct"
    /\ \E i \in 1 .. Len(context[1].items) : context[1].items[i] = m

\* C20: a context that has a method Lookup(name) with two results is asked
\* through that method alone: Lookup is called with the name asked for and its
\* value or its error is the result at once, whatever the name and whatever
\* other methods, fields or keys the context has, and no outer context is
\* probed
C20_CustomLookupOnly ==
    \A name \in AskedNames :
        (pc = "rendered" /\ data = VarTag(name)) =>
            /\ HasLookup(LookupEcho) => (out = name /\ rerr = NoError)
            /\ HasLookup(LookupFail) => (out = <<>> /\ rerr = LookupFailure)

\* what the literal expressions denote
LiteralValue(name) ==
    CASE name = <<"'", "a", "'">> -> VString(<<"a">>)
      [] name = <<"\"", "b", "<", "\"">> -> VString(<<"b", "<">>)
      [] name = <<"'", "a", ".", "b", "'">> -> VString(<<"a", ".", "b">>)
      [] name = <<"7">> -> VInt(7)
      [] name = <<"-", "3">> -> VInt(0 - 3)
      [] name = <<"0", "1", "7">> -> VInt(15)
      [] name = <<"0", "8">> -> VFloat(<<"8">>)
      [] name = <<"1", ".", "5">> -> VFloat(<<"1", ".", "5">>)
      [] name = <<"t", "r", "u", "e">> -> VBool(TRUE)
      [] name = <<"2", "i">> -> VComplex(<<"2">>)

\* C21: a variable tag whose expression is a literal (a quoted string, an
\* integer, a float such as 1.5, a boolean, a complex number) writes the value
\* the literal denotes, without error and whatever the context stack binds
C21_LiteralsResolve ==
    \A name \in LiteralNames :
        (pc = "rendered" /\ data = VarTag(name)) =>
            (out = Shown(LiteralValue(name)) /\ rerr = NoError)

\* C22: an index path a[i] fails visibly when it finds nothing: with a a
\* mapping without the key i the render ends with an invalid_variable error,
\* and with a a sequence and i outside 0..len(a)-1 a variable or section tag
\* never renders as if the value were empty: the render ends with an error
C22_IndexFailsVisibly ==
    (pc = "rendered" /\ NoMethods(context) /\ ~FoundNowhere(context, X)) =>
        /\ (data = VarTag(XKeyK) /\ BoundIn(context, X).kind = "map") =>
                rerr.code = ErrInvalidVariable
        /\ (/\ data \in {VarTag(XNine), SectionXNine}
            /\ BoundIn(context, X).kind = "slice"
            /\ Len(BoundIn(context, X).items) <= 9) => rerr # NoError

\* C23: compilation is total: ParseString never aborts with a run-time fault,
\* also on tags whose trimmed body is a single sigil character, and when it
\* has returned it has returned a Template or a ParseError
C23_CompilationTotal ==
    /\ pc # "panic"
    /\ pc = "parsed" => (ret.tmpl /\ ret.err = NoError)
    /\ pc = "error" => (~ret.tmpl /\ ret.err.kind = "ParseError")

\* the variable x followed the missing-variable policy between a and b
MissingPolicyX ==
    IF allowMissing THEN out = <<"a", "b">> /\ rerr = NoError
    ELSE rerr = newMissingVariableError(X)

\* C24: a render with no contexts never aborts with a run-time fault: every
\* name is missing, so a variable tag follows the missing-variable policy, a
\* non-inverted section is skipped and an inverted section renders its body
\* once
C24_EmptyContextSafe ==
    (pc = "rendered" /\ context = <<>>) =>
        /\ rerr # Panic
        /\ data = VariableX => MissingPolicyX
        /\ data = SectionXY => (out = <<>> /\ rerr = NoError)
        /\ data = InvertedXY => (out = <<"Y">> /\ rerr = NoError)

\* the characters of the text that can be the sigil of a section-open tag
SectionSigils == {i \in 1 .. Len(data) : data[i] \in {"#", "^"}}

\* the iteration returns with the end of the text or an error, or reads a tag
\* and moves the cursor past both delimiters
IterationEnds(it) ==
    it.eof \/ it.err # NoError \/ (it.tag # <<>> /\ it.p >= p + Len(otag) + Len(ctag))

\* the cursor lies in the text, neither delimiter is empty, the iteration that
\* starts here ends, and the calls of parseSection that have not returned are
\* no more than the section-open tags read, each of which starts at a place of
\* its own in the text
CursorInText ==
    /\ pc = "parsing" => IterationEnds(Iteration)
    /\ 0 <= p
    /\ p <= Len(data)
    /\ otag # <<>>
    /\ ctag # <<>>
    /\ Len(stack) <= Len(openAt)
    /\ \A i, j \in 1 .. Len(openAt) : i < j => openAt[i] < openAt[j]
    /\ Len(openAt) <= Cardinality(SectionSigils)

\* the step read a tag
TagWasRead == last' # last /\ last'.tag # <<>>

\* the cursor does not go back, a tag that was read moved it on by the lengths
\* of the delimiters in force at least, and an iteration of the loop of parse
\* or parseSection reads a tag or returns
CursorAdvances ==
    /\ p' >= p
    /\ TagWasRead => (last'.from = p /\ last'.after = p' /\ p' - p >= Len(otag) + Len(ctag))
    /\ pc = "parsing" => (TagWasRead \/ pc' \in {"parsed", "error"})

\* C25: compilation terminates on every finite input: the cursor stays within
\* 0..len(text) and never decreases, every tag read advances it by at least
\* the lengths of the open and close delimiters in force, which are never
\* empty, also after a delimiter change, every iteration of the loop of parse
\* or parseSection reads a tag or returns, and the depth of the recursion of
\* parseSection never exceeds the number of section-open tags of the text
C25_CompilationTerminates ==
    /\ []CursorInText
    /\ [][CursorAdvances]_vars

\* a section-open tag was read with changed delimiters, and the compilation
\* went on to its end
C25_Witness ==
    /\ pc = "error"
    /\ otag = <<"|">>
    /\ ctag = <<"|">>
    /\ Len(openAt) = 1
    /\ Len(stack) = 1
    /\ last.otag = <<"|">>
    /\ p = last.after
    /\ p - last.from >= 2

=============================================================================
